---- MODULE Spec2Model ----
(***************************************************************************)
(* HexMaker: the Illustrator macro of src/unnamed/part_004 (the current   *)
(* revision of GenerateHexDocument.jsx).                                   *)
(*                                                                         *)
(* Two specifications share the variables:                                 *)
(*   SpecBounds  applies the geometry functions (boundsIntersect,          *)
(*               getLayerBounds, scaleToFit, positionGroupRelativeToGroup, *)
(*               removeOverlappingPathsInGroups, positionGroupAbsolute,    *)
(*               positionLayerGroup, importGuidesFromSVG) to inputs drawn  *)
(*               from bounded sets;                                        *)
(*   Spec        is one run of main(), step by step, with the host call    *)
(*               that fails (if any) drawn in the initial state.           *)
(*                                                                         *)
(* Numbers.  The script computes in IEEE doubles; the model computes       *)
(* exactly.  A number is <<a, b, d>> and stands for (a + b*P)/d, where P   *)
(* is POINTS_PER_CM = 28.3464567 and d > 0; d = 0 stands for the doubles   *)
(* +Infinity (<<1,0,0>>), -Infinity (<<-1,0,0>>) and NaN (<<0,0,0>>).      *)
(* P is kept as a factor so that 11 * P needs no 64-bit product; its       *)
(* digits are used whenever two numbers are compared.                      *)
(***************************************************************************)
EXTENDS Integers, Sequences, FiniteSets, TLC

(* ---------------------------------------------------------------------- *)
(* Bounds of the model                                                     *)
(* ---------------------------------------------------------------------- *)
\* coordinates of the input rectangles are whole points in 0..MaxCoord
MaxCoord == 2
\* longest list of page items handed to getLayerBounds / scaleToFit
MaxItems == 2

(* ---------------------------------------------------------------------- *)
(* Exact arithmetic                                                        *)
(* ---------------------------------------------------------------------- *)
\* var POINTS_PER_CM = 28.3464567: integer part and decimal digits
PointsPerCmInt == 28
PointsPerCmDigits == <<3, 4, 6, 4, 5, 6, 7>>

Abs(x) == IF x < 0 THEN -x ELSE x
Sign(x) == IF x < 0 THEN -1 ELSE IF x > 0 THEN 1 ELSE 0

RECURSIVE GCD(_, _)
GCD(x, y) == IF y = 0 THEN x ELSE GCD(y, x % y)

\* long division of r/q against the decimal digits of POINTS_PER_CM from
\* digit i on: -1, 0, 1 as r/q is below, equal to or above them
RECURSIVE CmpDigits(_, _, _)
CmpDigits(r, q, i) ==
    IF i > Len(PointsPerCmDigits)
    THEN (IF r > 0 THEN 1 ELSE 0)
    ELSE LET t == r * 10
             dg == t \div q
         IN  IF dg > PointsPerCmDigits[i] THEN 1
             ELSE IF dg < PointsPerCmDigits[i] THEN -1
             ELSE CmpDigits(t % q, q, i + 1)

\* p/q compared with POINTS_PER_CM, for p >= 0 and q > 0
CmpPointsPerCm(p, q) ==
    LET ip == p \div q
    IN  IF ip > PointsPerCmInt THEN 1
        ELSE IF ip < PointsPerCmInt THEN -1
        ELSE CmpDigits(p % q, q, 1)

\* sign of a + b * POINTS_PER_CM
SignLin(a, b) ==
    IF b = 0 THEN Sign(a)
    ELSE IF a = 0 THEN Sign(b)
    ELSE IF Sign(a) = Sign(b) THEN Sign(a)
    ELSE Sign(a) * CmpPointsPerCm(Abs(a), Abs(b))

PosInf == <<1, 0, 0>>
NegInf == <<-1, 0, 0>>
NaN == <<0, 0, 0>>

IsFinite(x) == x[3] > 0
IsNaN(x) == x = NaN

Norm(a, b, d) ==
    LET g == GCD(GCD(Abs(a), Abs(b)), d)
    IN  <<a \div g, b \div g, d \div g>>

\* a whole number of points
Pt(n) == <<n, 0, 1>>
\* the rational n/d (d > 0), in points
Rat(n, d) == Norm(n, 0, d)
\* the constant cut to whole points
POINTS_PER_CM_Whole == Pt(28)

\* var POINTS_PER_CM = 28.3464567
POINTS_PER_CM == <<0, 1, 1>>

NSign(x) == IF IsFinite(x) THEN SignLin(x[1], x[2]) ELSE x[1]

NNeg(x) == <<-x[1], -x[2], x[3]>>

\* x + y on doubles
NAdd(x, y) ==
    IF IsFinite(x) /\ IsFinite(y)
    THEN Norm(x[1] * y[3] + y[1] * x[3], x[2] * y[3] + y[2] * x[3], x[3] * y[3])
    ELSE IF IsNaN(x) \/ IsNaN(y) THEN NaN
    ELSE IF IsFinite(x) THEN y
    ELSE IF IsFinite(y) THEN x
    ELSE IF x = y THEN x ELSE NaN

NSub(x, y) == NAdd(x, NNeg(y))

\* x * y on doubles; one finite factor at least is a plain rational
NMul(x, y) ==
    IF IsFinite(x) /\ IsFinite(y)
    THEN IF y[2] = 0
         THEN Norm(x[1] * y[1], x[2] * y[1], x[3] * y[3])
         ELSE Norm(y[1] * x[1], y[2] * x[1], x[3] * y[3])
    ELSE IF IsNaN(x) \/ IsNaN(y) \/ NSign(x) = 0 \/ NSign(y) = 0 THEN NaN
    ELSE IF NSign(x) * NSign(y) > 0 THEN PosInf ELSE NegInf

\* x / y on doubles, y a plain rational: x/0 is an infinity, 0/0 is NaN
NDiv(x, y) ==
    IF IsFinite(x) /\ IsFinite(y)
    THEN IF y[1] = 0
         THEN (IF NSign(x) > 0 THEN PosInf ELSE IF NSign(x) < 0 THEN NegInf ELSE NaN)
         ELSE Norm(x[1] * y[3] * Sign(y[1]), x[2] * y[3] * Sign(y[1]), x[3] * Abs(y[1]))
    ELSE IF IsNaN(x) \/ IsNaN(y) THEN NaN
    ELSE IF IsFinite(y) THEN (IF NSign(x) * (IF NSign(y) < 0 THEN -1 ELSE 1) > 0 THEN PosInf ELSE NegInf)
    ELSE IF IsFinite(x) THEN Pt(0)
    ELSE NaN

\* x < y on doubles (false as soon as one side is NaN)
NLess(x, y) ==
    IF IsNaN(x) \/ IsNaN(y) THEN FALSE
    ELSE IF IsFinite(x) /\ IsFinite(y) THEN NSign(NSub(x, y)) < 0
    ELSE IF IsFinite(x) THEN y = PosInf
    ELSE IF IsFinite(y) THEN x = NegInf
    ELSE x = NegInf /\ y = PosInf

\* x > y on doubles
NGreater(x, y) == NLess(y, x)

\* Math.min(x, y)
MathMin(x, y) == IF IsNaN(x) \/ IsNaN(y) THEN NaN ELSE IF NLess(y, x) THEN y ELSE x
\* Math.max(x, y)
MathMax(x, y) == IF IsNaN(x) \/ IsNaN(y) THEN NaN ELSE IF NLess(x, y) THEN y ELSE x

(* ---------------------------------------------------------------------- *)
(* Rectangles: geometricBounds is [left, top, right, bottom], Y up.        *)
(* The script's bounds[0..3] are the model's r[1..4].                      *)
(* ---------------------------------------------------------------------- *)
Left(r) == r[1]
Top(r) == r[2]
Right(r) == r[3]
Bottom(r) == r[4]

\* the null the script returns for "no bounds"
Null == <<>>


\* pageItem.translate(deltaX, deltaY) of the host, on a rectangle
TranslateRect(r, dx, dy) == <<NAdd(r[1], dx), NAdd(r[2], dy), NAdd(r[3], dx), NAdd(r[4], dy)>>

(* ---------------------------------------------------------------------- *)
\* fillColor of an item that was given none by the script
NoColor == [red |-> -1, green |-> -1, blue |-> -1]

(* ---------------------------------------------------------------------- *)
(* Page items.  An item is a record of the host's properties the script   *)
(* reads or writes: typename, name, geometricBounds, pageItems (the        *)
(* children of a GroupItem, whose geometricBounds is the box around them), *)
(* pathItems (the paths of a CompoundPathItem), guides and fillColor; id   *)
(* tells one object from another, where the script holds on to a           *)
(* reference.                                                              *)
(* ---------------------------------------------------------------------- *)
Item(id, typename, r, children) ==
    [id |-> id, name |-> "", typename |-> typename, geometricBounds |-> r,
     pageItems |-> IF typename = "GroupItem" THEN children ELSE <<>>,
     pathItems |-> IF typename = "CompoundPathItem" THEN children ELSE <<>>,
     guides |-> FALSE, fillColor |-> NoColor]
PathItem(r) == Item(0, "PathItem", r, <<>>)
\* a compound path of one path
CompoundPathItem(r) == Item(0, "CompoundPathItem", r, <<Item(0, "PathItem", r, <<>>)>>)

\* the loop "bounds[k] = Math.min/max(bounds[k], itemBounds[k])" from item i on
RECURSIVE mergeBounds(_, _, _)
mergeBounds(bounds, items, i) ==
    IF i > Len(items) THEN bounds
    ELSE LET itemBounds == items[i].geometricBounds
         IN  mergeBounds(<<MathMin(bounds[1], itemBounds[1]),
                           MathMax(bounds[2], itemBounds[2]),
                           MathMax(bounds[3], itemBounds[3]),
                           MathMin(bounds[4], itemBounds[4])>>, items, i + 1)

GroupItem(children) ==
    Item(0, "GroupItem", mergeBounds(children[1].geometricBounds, children, 2), children)

\* getLayerBounds with the loop stopping one item short
getLayerBounds_SkipsLast(layer) ==
    LET items == layer.pageItems
    IN  IF Len(items) = 0 THEN Null
        ELSE mergeBounds(items[1].geometricBounds, SubSeq(items, 1, Len(items) - 1), 2)

\* function getLayerBounds(layer)
getLayerBounds(layer) ==
    LET items == layer.pageItems
    IN  IF Len(items) = 0 THEN Null
        ELSE mergeBounds(items[1].geometricBounds, items, 2)

\* boundsIntersect with <= and >= for < and >
boundsIntersect_NonStrict(bounds1, bounds2) ==
    LET horizontalOverlap == ~NLess(bounds2[3], bounds1[1]) /\ ~NLess(bounds1[3], bounds2[1])
        verticalOverlap == ~NLess(bounds2[2], bounds1[4]) /\ ~NLess(bounds1[2], bounds2[4])
    IN  horizontalOverlap /\ verticalOverlap

\* boundsIntersect with >= for > in the horizontal test only
boundsIntersect_OneSided(bounds1, bounds2) ==
    LET horizontalOverlap == NLess(bounds1[1], bounds2[3]) /\ ~NLess(bounds1[3], bounds2[1])
        verticalOverlap == NLess(bounds1[4], bounds2[2]) /\ NGreater(bounds1[2], bounds2[4])
    IN  horizontalOverlap /\ verticalOverlap

\* boundsIntersect with <= and >= in the vertical test
boundsIntersect_TouchVertical(bounds1, bounds2) ==
    LET horizontalOverlap == NLess(bounds1[1], bounds2[3]) /\ NGreater(bounds1[3], bounds2[1])
        verticalOverlap == ~NLess(bounds2[2], bounds1[4]) /\ ~NLess(bounds1[2], bounds2[4])
    IN  horizontalOverlap /\ verticalOverlap

\* function boundsIntersect(bounds1, bounds2)
boundsIntersect(bounds1, bounds2) ==
    LET horizontalOverlap == NLess(bounds1[1], bounds2[3]) /\ NGreater(bounds1[3], bounds2[1])
        verticalOverlap == NLess(bounds1[4], bounds2[2]) /\ NGreater(bounds1[2], bounds2[4])
    IN  horizontalOverlap /\ verticalOverlap

\* scaleFactor with Math.max for Math.min
scaleFactor_Max(selection, targetWidthCm, targetHeightCm) ==
    LET targetWidthPt == NMul(targetWidthCm, POINTS_PER_CM)
        targetHeightPt == NMul(targetHeightCm, POINTS_PER_CM)
        bounds == mergeBounds(selection[1].geometricBounds, selection, 2)
        currentWidth == NSub(bounds[3], bounds[1])
        currentHeight == NSub(bounds[2], bounds[4])
        scaleX == NMul(NDiv(targetWidthPt, currentWidth), Pt(100))
        scaleY == NMul(NDiv(targetHeightPt, currentHeight), Pt(100))
    IN  MathMax(scaleX, scaleY)

\* scaleToFit up to "var scaleFactor = Math.min(scaleX, scaleY)"
scaleFactor(selection, targetWidthCm, targetHeightCm) ==
    LET targetWidthPt == NMul(targetWidthCm, POINTS_PER_CM)
        targetHeightPt == NMul(targetHeightCm, POINTS_PER_CM)
        bounds == mergeBounds(selection[1].geometricBounds, selection, 2)
        currentWidth == NSub(bounds[3], bounds[1])
        currentHeight == NSub(bounds[2], bounds[4])
        scaleX == NMul(NDiv(targetWidthPt, currentWidth), Pt(100))
        scaleY == NMul(NDiv(targetHeightPt, currentHeight), Pt(100))
    IN  MathMin(scaleX, scaleY)

\* function scaleToFit(selection, targetWidthCm, targetHeightCm): the
\* arguments of the resize call made on each item, in order; none for a
\* null or empty selection
scaleToFit(selection, targetWidthCm, targetHeightCm) ==
    IF selection = Null \/ Len(selection) = 0 THEN <<>>
    ELSE LET sf == scaleFactor(selection, targetWidthCm, targetHeightCm)
         IN  [i \in 1..Len(selection) |-> <<sf, sf>>]

\* positionGroupRelativeToGroup aligning the top edges in "Bottom Sponsor" mode
positionGroupRelativeToGroup_TopEdges(sponsorGroup, hexGroup, positionType) ==
    LET sponsorBounds == sponsorGroup.geometricBounds
        hexBounds == hexGroup.geometricBounds
        sponsorCenterX == NAdd(sponsorBounds[1], NDiv(NSub(sponsorBounds[3], sponsorBounds[1]), Pt(2)))
        sponsorCenterY == NAdd(sponsorBounds[4], NDiv(NSub(sponsorBounds[2], sponsorBounds[4]), Pt(2)))
        hexCenterX == NAdd(hexBounds[1], NDiv(NSub(hexBounds[3], hexBounds[1]), Pt(2)))
        hexCenterY == NAdd(hexBounds[4], NDiv(NSub(hexBounds[2], hexBounds[4]), Pt(2)))
    IN  IF positionType = "Bottom Sponsor"
        THEN <<NSub(hexCenterX, sponsorCenterX), NSub(hexBounds[2], sponsorBounds[2])>>
        ELSE IF positionType = "Middle Sponsor"
        THEN <<NSub(hexCenterX, sponsorCenterX), NSub(hexCenterY, sponsorCenterY)>>
        ELSE <<Pt(0), Pt(0)>>

\* positionGroupRelativeToGroup taking the sponsor's bottom for its vertical
\* centre in "Middle Sponsor" mode
positionGroupRelativeToGroup_NoHalf(sponsorGroup, hexGroup, positionType) ==
    LET sponsorBounds == sponsorGroup.geometricBounds
        hexBounds == hexGroup.geometricBounds
        sponsorCenterX == NAdd(sponsorBounds[1], NDiv(NSub(sponsorBounds[3], sponsorBounds[1]), Pt(2)))
        sponsorCenterY == sponsorBounds[4]
        hexCenterX == NAdd(hexBounds[1], NDiv(NSub(hexBounds[3], hexBounds[1]), Pt(2)))
        hexCenterY == NAdd(hexBounds[4], NDiv(NSub(hexBounds[2], hexBounds[4]), Pt(2)))
    IN  IF positionType = "Bottom Sponsor"
        THEN <<NSub(hexCenterX, sponsorCenterX), NSub(hexBounds[4], sponsorBounds[4])>>
        ELSE IF positionType = "Middle Sponsor"
        THEN <<NSub(hexCenterX, sponsorCenterX), NSub(hexCenterY, sponsorCenterY)>>
        ELSE <<Pt(0), Pt(0)>>

\* function positionGroupRelativeToGroup(sponsorGroup, hexGroup, positionType):
\* the arguments of sponsorGroup.translate
positionGroupRelativeToGroup(sponsorGroup, hexGroup, positionType) ==
    LET sponsorBounds == sponsorGroup.geometricBounds
        hexBounds == hexGroup.geometricBounds
        sponsorWidth == NSub(sponsorBounds[3], sponsorBounds[1])
        sponsorHeight == NSub(sponsorBounds[2], sponsorBounds[4])
        sponsorCenterX == NAdd(sponsorBounds[1], NDiv(sponsorWidth, Pt(2)))
        sponsorCenterY == NAdd(sponsorBounds[4], NDiv(sponsorHeight, Pt(2)))
        hexWidth == NSub(hexBounds[3], hexBounds[1])
        hexHeight == NSub(hexBounds[2], hexBounds[4])
        hexCenterX == NAdd(hexBounds[1], NDiv(hexWidth, Pt(2)))
        hexCenterY == NAdd(hexBounds[4], NDiv(hexHeight, Pt(2)))
    IN  IF positionType = "Bottom Sponsor"
        THEN <<NSub(hexCenterX, sponsorCenterX), NSub(hexBounds[4], sponsorBounds[4])>>
        ELSE IF positionType = "Middle Sponsor"
        THEN <<NSub(hexCenterX, sponsorCenterX), NSub(hexCenterY, sponsorCenterY)>>
        ELSE <<Pt(0), Pt(0)>>

\* group.translate(deltaX, deltaY) of the host: the group and all it holds move
RECURSIVE TranslateItem(_, _, _)
TranslateItem(item, dx, dy) ==
    [item EXCEPT !.geometricBounds = TranslateRect(item.geometricBounds, dx, dy),
                 !.pageItems = [k \in 1..Len(item.pageItems) |-> TranslateItem(item.pageItems[k], dx, dy)],
                 !.pathItems = [k \in 1..Len(item.pathItems) |-> TranslateItem(item.pathItems[k], dx, dy)]]

\* collectPathItems without the recursion into GroupItems
collectPathItems_NoRecursion(items, prefix, i) ==
    SelectSeq([k \in 1..Len(items) |-> <<k>>],
              LAMBDA p : items[p[1]].typename \in {"PathItem", "CompoundPathItem"})

\* function collectPathItems(items, pathArray): the items appended to
\* pathArray, each named by its index path below the collection
RECURSIVE collectPathItems(_, _, _)
collectPathItems(items, prefix, i) ==
    IF i > Len(items) THEN <<>>
    ELSE LET item == items[i]
             here == IF item.typename = "PathItem" THEN <<Append(prefix, i)>>
                     ELSE IF item.typename = "GroupItem"
                     THEN collectPathItems(item.pageItems, Append(prefix, i), 1)
                     ELSE IF item.typename = "CompoundPathItem" THEN <<Append(prefix, i)>>
                     ELSE <<>>
         IN  here \o collectPathItems(items, prefix, i + 1)

\* the item at an index path
RECURSIVE ItemAt(_, _)
ItemAt(items, path) ==
    IF Len(path) = 1 THEN items[path[1]]
    ELSE ItemAt(items[path[1]].pageItems, Tail(path))

\* removeOverlappingPathsInGroups up to the deletion loop: pathsToDelete
pathsToDelete(hexGroup, sponsorGroup) ==
    LET sponsorBounds == sponsorGroup.geometricBounds
        hexPaths == collectPathItems(hexGroup.pageItems, <<>>, 1)
    IN  SelectSeq(hexPaths,
                  LAMBDA p : boundsIntersect(ItemAt(hexGroup.pageItems, p).geometricBounds,
                                             sponsorBounds))

InSeq(x, s) == \E k \in 1..Len(s) : s[k] = x

\* pageItem.remove() of the host for every item of a list of index paths:
\* what is left of a collection (a group emptied of its items stays)
RECURSIVE RemoveAll(_, _, _, _)
RemoveAll(items, prefix, i, doomed) ==
    IF i > Len(items) THEN <<>>
    ELSE LET item == items[i]
             p == Append(prefix, i)
             kept == IF InSeq(p, doomed) THEN <<>>
                     ELSE IF item.typename = "GroupItem"
                     THEN LET rest == RemoveAll(item.pageItems, p, 1, doomed)
                          IN  <<[item EXCEPT
                                   !.geometricBounds = IF Len(rest) = 0 THEN item.geometricBounds
                                                       ELSE mergeBounds(rest[1].geometricBounds, rest, 2),
                                   !.pageItems = rest]>>
                     ELSE <<item>>
         IN  kept \o RemoveAll(items, prefix, i + 1, doomed)

\* function removeOverlappingPathsInGroups(hexGroup, sponsorGroup): the hex group afterwards
removeOverlappingPathsInGroups(hexGroup, sponsorGroup) ==
    LET rest == RemoveAll(hexGroup.pageItems, <<>>, 1, pathsToDelete(hexGroup, sponsorGroup))
    IN  [hexGroup EXCEPT
           !.geometricBounds = IF Len(rest) = 0 THEN hexGroup.geometricBounds
                               ELSE mergeBounds(rest[1].geometricBounds, rest, 2),
           !.pageItems = rest]


(* ---------------------------------------------------------------------- *)
(* Colours.  A string is the sequence of its characters.                   *)
(* ---------------------------------------------------------------------- *)
HexDigits == <<"0", "1", "2", "3", "4", "5", "6", "7", "8", "9", "A", "B", "C", "D", "E", "F">>

\* value of one hexadecimal digit
HexDigitValue(c) == (CHOOSE k \in 1..Len(HexDigits) : HexDigits[k] = c) - 1

\* parseInt(two characters) with radix 10
ParseHexPair_Decimal(s) == 10 * HexDigitValue(s[1]) + HexDigitValue(s[2])

\* parseInt(two characters, 16)
ParseHexPair(s) == 16 * HexDigitValue(s[1]) + HexDigitValue(s[2])

\* function hexToRGB(hex)
hexToRGB(hex) ==
    LET noHash == IF Len(hex) > 0 /\ hex[1] = "#" THEN Tail(hex) ELSE hex
        six == IF Len(noHash) = 3
               THEN <<noHash[1], noHash[1], noHash[2], noHash[2], noHash[3], noHash[3]>>
               ELSE noHash
    IN  [red |-> ParseHexPair(SubSeq(six, 1, 2)),
         green |-> ParseHexPair(SubSeq(six, 3, 4)),
         blue |-> ParseHexPair(SubSeq(six, 5, 6))]

\* the names of colorDropdown, in its order
ColorNames == <<"Black", "White", "Navy", "Yellow", "Pink", "Red", "Maroon", "Green",
                "Lime Green", "Emerald Green", "Bottle Green", "Light Blue", "Royal Blue">>

\* the names of positionDropdown
PositionTypes == {"Bottom Sponsor", "Middle Sponsor"}

\* showConfigDialog: the if-chain from the selected name to rgbColor
selectedRGB(selectedColor) ==
    CASE selectedColor = "Black" -> hexToRGB(<<"#", "0", "0", "0", "0", "0", "0">>)
      [] selectedColor = "White" -> hexToRGB(<<"#", "F", "F", "F", "F", "F", "F">>)
      [] selectedColor = "Navy" -> hexToRGB(<<"#", "0", "7", "2", "4", "4", "1">>)
      [] selectedColor = "Yellow" -> hexToRGB(<<"#", "F", "B", "B", "A", "0", "0">>)
      [] selectedColor = "Pink" -> hexToRGB(<<"#", "E", "1", "4", "4", "9", "8">>)
      [] selectedColor = "Red" -> hexToRGB(<<"#", "C", "4", "2", "9", "3", "9">>)
      [] selectedColor = "Maroon" -> hexToRGB(<<"#", "6", "2", "1", "1", "2", "2">>)
      [] selectedColor = "Green" -> hexToRGB(<<"#", "6", "B", "9", "B", "3", "8">>)
      [] selectedColor = "Lime Green" -> hexToRGB(<<"#", "7", "0", "B", "E", "4", "6">>)
      [] selectedColor = "Emerald Green" -> hexToRGB(<<"#", "0", "0", "6", "7", "3", "A">>)
      [] selectedColor = "Bottle Green" -> hexToRGB(<<"#", "0", "0", "5", "2", "3", "F">>)
      [] selectedColor = "Light Blue" -> hexToRGB(<<"#", "0", "0", "B", "9", "E", "D">>)
      [] selectedColor = "Royal Blue" -> hexToRGB(<<"#", "0", "0", "5", "E", "A", "3">>)
      [] OTHER -> NoColor

\* showConfigDialog returning the object whatever button closed the dialog
showConfigDialog_IgnoresCancel(ok, selectedColor, selectedPosition) ==
    <<[color |-> selectedRGB(selectedColor), position |-> selectedPosition]>>

\* function showConfigDialog(): null (<<>>) on Cancel, the object
\* <<{color, position}>> on OK
showConfigDialog(ok, selectedColor, selectedPosition) ==
    IF ok THEN <<[color |-> selectedRGB(selectedColor), position |-> selectedPosition]>>
    ELSE Null

(* ---------------------------------------------------------------------- *)
(* The host's document model                                               *)
(* ---------------------------------------------------------------------- *)
\* a group with the box around its present children (an emptied group keeps its box)
Regroup(item, children) ==
    [item EXCEPT !.geometricBounds = IF Len(children) = 0 THEN item.geometricBounds
                                     ELSE mergeBounds(children[1].geometricBounds, children, 2),
                 !.pageItems = children]

\* the item of a given id, at any depth: <<item>>, or <<>> if there is none
RECURSIVE FindItem(_, _, _)
FindItem(items, id, i) ==
    IF i > Len(items) THEN <<>>
    ELSE IF items[i].id = id THEN <<items[i]>>
    ELSE LET below == FindItem(items[i].pageItems, id, 1)
         IN  IF Len(below) > 0 THEN below ELSE FindItem(items, id, i + 1)

\* the collection with the item of a given id replaced
RECURSIVE ReplaceItem(_, _, _)
ReplaceItem(items, id, new) ==
    [k \in 1..Len(items) |->
        IF items[k].id = id THEN new
        ELSE IF items[k].typename = "GroupItem"
        THEN Regroup(items[k], ReplaceItem(items[k].pageItems, id, new))
        ELSE items[k]]

\* pageItem.resize(scaleX, scaleY) of the host: percentages, about the
\* centre of the item's own bounding box
RECURSIVE ResizeAbout(_, _, _, _, _)
ResizeAbout(item, cx, cy, scaleX, scaleY) ==
    LET r == item.geometricBounds
        sx(v) == NAdd(cx, NDiv(NMul(NSub(v, cx), scaleX), Pt(100)))
        sy(v) == NAdd(cy, NDiv(NMul(NSub(v, cy), scaleY), Pt(100)))
    IN  [item EXCEPT
           !.geometricBounds = <<sx(r[1]), sy(r[2]), sx(r[3]), sy(r[4])>>,
           !.pageItems = [k \in 1..Len(item.pageItems) |->
                             ResizeAbout(item.pageItems[k], cx, cy, scaleX, scaleY)],
           !.pathItems = [k \in 1..Len(item.pathItems) |->
                             ResizeAbout(item.pathItems[k], cx, cy, scaleX, scaleY)]]

Resize(item, scaleX, scaleY) ==
    LET r == item.geometricBounds
    IN  ResizeAbout(item, NDiv(NAdd(r[1], r[3]), Pt(2)), NDiv(NAdd(r[2], r[4]), Pt(2)),
                    scaleX, scaleY)

\* items given the ids first, first + 1, ...
WithIds(items, first) == [k \in 1..Len(items) |-> [items[k] EXCEPT !.id = first + k - 1]]

IdsOf(items) == [k \in 1..Len(items) |-> items[k].id]

\* app.executeMenuCommand("group") of the host on the selected top-level
\* items of a layer: they become the children of a new group that takes the
\* place of the first of them
GroupSelected(items, ids, newId) ==
    LET chosen == SelectSeq(items, LAMBDA it : InSeq(it.id, ids))
        first == CHOOSE k \in 1..Len(items) : items[k].id = chosen[1].id
        group == Item(newId, "GroupItem",
                      mergeBounds(chosen[1].geometricBounds, chosen, 2), chosen)
    IN  IF Len(chosen) = 0 THEN items
        ELSE SelectSeq(SubSeq(items, 1, first - 1), LAMBDA it : ~InSeq(it.id, ids))
             \o <<group>>
             \o SelectSeq(SubSeq(items, first + 1, Len(items)), LAMBDA it : ~InSeq(it.id, ids))

\* app.open(file) of the host: the file's document is open
openDocument(a, doc) == [a EXCEPT !.documents = @ \cup {doc}, !.activeDocument = doc]

\* document.close(saveOptions) of the host: with SAVECHANGES the document's
\* file is written
closeDocument(a, doc, saveOptions) ==
    [a EXCEPT !.documents = @ \ {doc},
              !.closedWithoutSaving = IF saveOptions = "DONOTSAVECHANGES" THEN @ \cup {doc} ELSE @,
              !.written = IF saveOptions = "SAVECHANGES" THEN @ \cup {doc} ELSE @]

\* function applyColorToItems(items, rgbColor)
RECURSIVE applyColorToItems(_, _)
applyColorToItems(items, rgbColor) ==
    [k \in 1..Len(items) |->
        LET item == items[k]
        IN  IF item.typename = "PathItem" THEN [item EXCEPT !.fillColor = rgbColor]
            ELSE IF item.typename = "GroupItem"
            THEN [item EXCEPT !.pageItems = applyColorToItems(item.pageItems, rgbColor)]
            ELSE IF item.typename = "CompoundPathItem"
            THEN [item EXCEPT !.pathItems = applyColorToItems(item.pathItems, rgbColor)]
            ELSE item]

\* function convertToGuides(items)
RECURSIVE convertToGuides(_)
convertToGuides(items) ==
    [k \in 1..Len(items) |->
        LET item == items[k]
        IN  IF item.typename = "PathItem" THEN [item EXCEPT !.guides = TRUE]
            ELSE IF item.typename = "GroupItem"
            THEN [item EXCEPT !.pageItems = convertToGuides(item.pageItems)]
            ELSE IF item.typename = "CompoundPathItem"
            THEN [item EXCEPT !.pathItems = convertToGuides(item.pathItems)]
            ELSE item]

\* function importGuidesFromSVG(svgFile, targetDoc), from the paste on: the
\* pasted items moved so that the top-left corner of their box is at
\* (0.5 cm, -0.5 cm), and converted to guides
importGuidesFromSVG(pastedItems) ==
    LET targetX == NMul(Rat(1, 2), POINTS_PER_CM)
        targetY == NMul(Rat(-1, 2), POINTS_PER_CM)
        bounds == mergeBounds(pastedItems[1].geometricBounds, pastedItems, 2)
        deltaX == NSub(targetX, bounds[1])
        deltaY == NSub(targetY, bounds[2])
        moved == [k \in 1..Len(pastedItems) |-> TranslateItem(pastedItems[k], deltaX, deltaY)]
    IN  IF Len(pastedItems) > 0 THEN convertToGuides(moved) ELSE pastedItems

\* layer.groupItems of the host: the groups among the layer's page items
groupItems(layer) == SelectSeq(layer.pageItems, LAMBDA it : it.typename = "GroupItem")

\* function positionLayerGroup(layer, xCm, yCm): the arguments of
\* group.translate for the first group of the layer; none without a group
positionLayerGroup(layer, xCm, yCm) ==
    LET xPoints == NMul(xCm, POINTS_PER_CM)
        yPoints == NMul(yCm, POINTS_PER_CM)
        bounds == groupItems(layer)[1].geometricBounds
        currentLeft == bounds[1]
        currentTop == bounds[2]
    IN  IF Len(groupItems(layer)) > 0
        THEN <<NSub(xPoints, currentLeft), NSub(NNeg(yPoints), currentTop)>>
        ELSE Null

\* positionGroupAbsolute measuring from the origin, not from the artboard
positionGroupAbsolute_FromOrigin(group, xCm, yCm, artboardRect) ==
    LET xPoints == NMul(xCm, POINTS_PER_CM)
        yPoints == NMul(yCm, POINTS_PER_CM)
        bounds == group.geometricBounds
    IN  <<NSub(xPoints, bounds[1]), NSub(NNeg(yPoints), bounds[2])>>

\* function positionGroupAbsolute(group, xCm, yCm, artboardRect): the
\* arguments of group.translate
positionGroupAbsolute(group, xCm, yCm, artboardRect) ==
    LET xPoints == NMul(xCm, POINTS_PER_CM)
        yPoints == NMul(yCm, POINTS_PER_CM)
        targetX == NAdd(artboardRect[1], xPoints)
        targetY == NSub(artboardRect[2], yPoints)
        bounds == group.geometricBounds
        currentLeft == bounds[1]
        currentTop == bounds[2]
    IN  <<NSub(targetX, currentLeft), NSub(targetY, currentTop)>>

\* centerTwoGroupsOnArtboard without the division by 2 for the artboard's centre
centerTwoGroupsOnArtboard_NoHalf(group1, group2, artboardRect) ==
    LET bounds1 == group1.geometricBounds
        bounds2 == group2.geometricBounds
        combinedLeft == MathMin(bounds1[1], bounds2[1])
        combinedTop == MathMax(bounds1[2], bounds2[2])
        combinedRight == MathMax(bounds1[3], bounds2[3])
        combinedBottom == MathMin(bounds1[4], bounds2[4])
        combinedCenterX == NDiv(NAdd(combinedLeft, combinedRight), Pt(2))
        combinedCenterY == NDiv(NAdd(combinedTop, combinedBottom), Pt(2))
        artboardCenterX == NAdd(artboardRect[1], artboardRect[3])
        artboardCenterY == NAdd(artboardRect[2], artboardRect[4])
    IN  <<NSub(artboardCenterX, combinedCenterX), NSub(artboardCenterY, combinedCenterY)>>

\* function centerTwoGroupsOnArtboard(group1, group2, artboardRect): the
\* arguments of both translate calls
centerTwoGroupsOnArtboard(group1, group2, artboardRect) ==
    LET bounds1 == group1.geometricBounds
        bounds2 == group2.geometricBounds
        combinedLeft == MathMin(bounds1[1], bounds2[1])
        combinedTop == MathMax(bounds1[2], bounds2[2])
        combinedRight == MathMax(bounds1[3], bounds2[3])
        combinedBottom == MathMin(bounds1[4], bounds2[4])
        combinedCenterX == NDiv(NAdd(combinedLeft, combinedRight), Pt(2))
        combinedCenterY == NDiv(NAdd(combinedTop, combinedBottom), Pt(2))
        artboardCenterX == NDiv(NAdd(artboardRect[1], artboardRect[3]), Pt(2))
        artboardCenterY == NDiv(NAdd(artboardRect[2], artboardRect[4]), Pt(2))
    IN  <<NSub(artboardCenterX, combinedCenterX), NSub(artboardCenterY, combinedCenterY)>>

\* the loop of removeEmptyLayers from layer i down to the first, until a
\* layer.remove() throws: the layers left, and whether one threw
RECURSIVE removeEmptyLoop(_, _, _)
removeEmptyLoop(docLayers, i, removeThrows) ==
    IF i < 1 THEN [layers |-> docLayers, thrown |-> FALSE]
    ELSE IF Len(docLayers[i].pageItems) = 0
    THEN IF docLayers[i].key \in removeThrows
         THEN [layers |-> docLayers, thrown |-> TRUE]
         ELSE removeEmptyLoop(SubSeq(docLayers, 1, i - 1) \o SubSeq(docLayers, i + 1, Len(docLayers)),
                              i - 1, removeThrows)
    ELSE removeEmptyLoop(docLayers, i - 1, removeThrows)

\* removeEmptyLayers without its try/catch
removeEmptyLayers_Rethrows(docLayers, removeThrows, layersThrows) ==
    LET loop == IF layersThrows THEN [layers |-> docLayers, thrown |-> FALSE]
                ELSE removeEmptyLoop(docLayers, Len(docLayers), removeThrows)
    IN  [layers |-> loop.layers, removeThrew |-> loop.thrown,
         propagated |-> loop.thrown \/ layersThrows]

\* function removeEmptyLayers(doc): the layers left, whether a
\* layer.remove() threw, and whether an error leaves the function (the
\* catch block is empty, so none does); layersThrows: reading doc.layers throws
removeEmptyLayers(docLayers, removeThrows, layersThrows) ==
    LET loop == IF layersThrows THEN [layers |-> docLayers, thrown |-> FALSE]
                ELSE removeEmptyLoop(docLayers, Len(docLayers), removeThrows)
    IN  [layers |-> loop.layers, removeThrew |-> loop.thrown, propagated |-> FALSE]

(* ---------------------------------------------------------------------- *)
(* State                                                                   *)
(* ---------------------------------------------------------------------- *)
VARIABLES
    call,            \* SpecBounds: the function applied and its arguments
    ret,             \* SpecBounds: <<>> before the call, <<result>> after it
    input,           \* what the run meets: the user's answer, the files, the
                     \* documents' contents and the host call that fails
    pc,              \* where main() is
    app,             \* app.activeDocument, the open documents, the clipboard,
                     \* the files written, the artwork of the source document
    sourceSelection, \* sourceDoc.selection: indices into the source artwork
    layers,          \* newDoc.layers, topmost first
    selection,       \* newDoc.selection: item ids
    local,           \* the local variables of main()
    nextId,          \* the id of the next item the host creates
    alerts,          \* the alerts shown so far
    caught,          \* the error main's catch block received: <<e>>, <<>> so far
    failedAt,        \* history: the host call that did fail, "none" so far
    removeThrew      \* history: a layer.remove() threw inside removeEmptyLayers

boundsVars == <<call, ret>>
docVars == <<app, sourceSelection, layers, selection, local, nextId>>
runVars == <<input, pc, app, sourceSelection, layers, selection, local, nextId,
             alerts, caught, failedAt, removeThrew>>
vars == <<call, ret, input, pc, app, sourceSelection, layers, selection, local, nextId,
          alerts, caught, failedAt, removeThrew>>

Pending == <<>>

(* ---------------------------------------------------------------------- *)
(* What a run can meet                                                     *)
(* ---------------------------------------------------------------------- *)
Rect(l, t, r, b) == <<Pt(l), Pt(t), Pt(r), Pt(b)>>

Layer(key, name, items) == [key |-> key, name |-> name, locked |-> FALSE, pageItems |-> items]

\* the artwork on the active artboard of the source document: one wide
\* item; one tall item; an item and a guide; two items apart; a guide alone;
\* nothing
SourceArtworks ==
    { <<Item(0, "PathItem", Rect(10, 110, 210, 10), <<>>)>>,
      <<Item(0, "GroupItem", Rect(0, 400, 100, 0),
             <<Item(0, "PathItem", Rect(0, 400, 100, 200), <<>>),
               Item(0, "CompoundPathItem", Rect(20, 200, 80, 0),
                    <<Item(0, "PathItem", Rect(20, 200, 80, 0), <<>>)>>)>>)>>,
      <<Item(0, "PathItem", Rect(0, 50, 100, 0), <<>>),
        [Item(0, "PathItem", Rect(-500, 25, 900, 25), <<>>) EXCEPT !.guides = TRUE]>>,
      <<Item(0, "PathItem", Rect(0, 50, 50, 0), <<>>),
        Item(0, "PathItem", Rect(350, 100, 400, 50), <<>>)>>,
      <<[Item(0, "PathItem", Rect(40, 900, 40, -900), <<>>) EXCEPT !.guides = TRUE]>>,
      <<>> }

\* the artwork of assets/MASURI TAB.svg
MasuriTabArtworks ==
    { <<Item(0, "GroupItem", Rect(0, 40, 60, 0),
             <<Item(0, "PathItem", Rect(0, 40, 60, 20), <<>>),
               Item(0, "PathItem", Rect(0, 20, 60, 0), <<>>)>>)>>,
      <<>> }

\* the artwork of assets/GUIDES.svg
GuidesArtworks ==
    { <<Item(0, "PathItem", Rect(0, 0, 340, 0), <<>>),
        Item(0, "GroupItem", Rect(0, 0, 340, -900),
             <<Item(0, "PathItem", Rect(0, 0, 0, -900), <<>>),
               Item(0, "CompoundPathItem", Rect(340, 0, 340, -900),
                    <<Item(0, "PathItem", Rect(340, 0, 340, -900), <<>>)>>)>>)>>,
      <<>> }

\* the hex pattern of assets/HEX.eps at an offset from the artboard's
\* top-left corner: a group of six cells in two columns, a single cell and
\* a compound cell
HexPattern(x, y) ==
    <<Item(1, "GroupItem", Rect(x, y, x + 240, y - 900),
           <<Item(0, "PathItem", Rect(x, y, x + 120, y - 300), <<>>),
             Item(0, "PathItem", Rect(x + 120, y, x + 240, y - 300), <<>>),
             Item(0, "PathItem", Rect(x, y - 300, x + 120, y - 600), <<>>),
             Item(0, "PathItem", Rect(x + 120, y - 300, x + 240, y - 600), <<>>),
             Item(0, "PathItem", Rect(x, y - 600, x + 120, y - 900), <<>>),
             Item(0, "PathItem", Rect(x + 120, y - 600, x + 240, y - 900), <<>>)>>),
      Item(2, "PathItem", Rect(x + 240, y, x + 360, y - 450), <<>>),
      Item(3, "CompoundPathItem", Rect(x + 240, y - 450, x + 360, y - 900),
           <<Item(0, "PathItem", Rect(x + 240, y - 450, x + 360, y - 900), <<>>)>>)>>

\* the first id the host gives to an item made during the run
FirstNewId == Len(HexPattern(0, 0)) + 1

\* artboards[0].artboardRect of the 13cm x 34cm template, its top-left corner at (x, y)
ArtboardRect(x, y) ==
    <<Pt(x), Pt(y), NAdd(Pt(x), NMul(Pt(13), POINTS_PER_CM)), NSub(Pt(y), NMul(Pt(34), POINTS_PER_CM))>>

\* the documents assets/HEX.eps can be: its layers, topmost first, and its artboard
Templates ==
    { [layers |-> <<Layer("L1", "Layer 1", HexPattern(4, -30))>>,
       artboardRect |-> ArtboardRect(0, 0)],
      [layers |-> <<Layer("L1", "Notes", <<>>), Layer("L2", "Hex", HexPattern(4, -30))>>,
       artboardRect |-> ArtboardRect(0, 0)],
      [layers |-> <<Layer("L1", "Pattern", HexPattern(104, 970)), Layer("L2", "Background", <<>>),
                    Layer("L3", "Swatches", <<>>)>>,
       artboardRect |-> ArtboardRect(100, 1000)] }

\* the layers a run can hold, by key ("G" is the Guides layer the run adds)
LayerKeys == {"G", "L1", "L2", "L3"}

\* the host calls of main() that can throw, by the step that makes them
HostCalls ==
    {"showConfigDialog", "locateFiles", "openTemplate", "markUnsaved", "prepareArtworkLayer",
     "selectSourceArtwork", "copySponsor", "scaleSponsor", "storeSponsorItems",
     "collectHexItems", "applyColor", "importMasuriTab", "pasteMasuriTab", "importGuides", "pasteGuides",
     "groupGuides",
     "lockGuides", "groupSponsor", "groupHex", "groupMasuriTab", "unlockGroups",
     "groupSponsorHex", "groupMaster", "positionSponsor", "removeOverlaps",
     "centerHexAndSponsor", "positionMasuriTab", "removeEmptyLayers", "clearSelection"}

\* messages of the host's errors, as words
HostMessages == {<<"an", "Illustrator", "error", "occurred">>, <<"MRAP">>}

AssetFiles == {"HEX.eps", "MASURI TAB.svg", "GUIDES.svg"}

\* the inputs of a run that is not disturbed
PlainInputs ==
    [ok : {TRUE}, color : {"Black"}, position : PositionTypes, exists : {AssetFiles},
     sourceArt : SourceArtworks, sourceSelection : {<<>>},
     masuriTabArt : MasuriTabArtworks, guidesArt : GuidesArtworks,
     template : Templates, removeThrows : SUBSET {"G", "L1", "L2"},
     fails : {"none"}, hostMessage : {<<"MRAP">>}]

\* a run in which one host call throws
FailingInputs ==
    [ok : {TRUE}, color : {"Black"}, position : PositionTypes, exists : {AssetFiles},
     sourceArt : {s \in SourceArtworks : Len(s) = 1 /\ ~s[1].guides}, sourceSelection : {<<>>},
     masuriTabArt : MasuriTabArtworks, guidesArt : {g \in GuidesArtworks : Len(g) > 0},
     template : Templates, removeThrows : {{}, {"L1"}, {"L3"}},
     fails : HostCalls, hostMessage : HostMessages]

\* the dialog: every colour, and Cancel; a source selection made by the user
DialogInputs ==
    [ok : BOOLEAN, color : {ColorNames[k] : k \in 1..Len(ColorNames)}, position : PositionTypes,
     exists : {AssetFiles},
     sourceArt : {s \in SourceArtworks : Len(s) = 2}, sourceSelection : {<<>>, <<2>>},
     masuriTabArt : {m \in MasuriTabArtworks : Len(m) > 0},
     guidesArt : {g \in GuidesArtworks : Len(g) > 0},
     template : {t \in Templates : Len(t.layers) = 1}, removeThrows : {{}},
     fails : {"none"}, hostMessage : {<<"MRAP">>}]

\* asset files that are missing
MissingFileInputs ==
    [ok : BOOLEAN, color : {"Black"}, position : {"Bottom Sponsor"},
     exists : SUBSET AssetFiles \ {AssetFiles},
     sourceArt : {s \in SourceArtworks : Len(s) = 2}, sourceSelection : {<<>>, <<2>>},
     masuriTabArt : {m \in MasuriTabArtworks : Len(m) > 0},
     guidesArt : {g \in GuidesArtworks : Len(g) > 0},
     template : {t \in Templates : Len(t.layers) = 1}, removeThrows : {{}},
     fails : {"none", "showConfigDialog", "openTemplate"}, hostMessage : {<<"MRAP">>}]

Inputs == PlainInputs \cup FailingInputs \cup DialogInputs \cup MissingFileInputs

\* main's local variables before they are assigned (0 and "" are null)
NoLocals ==
    [hexColor |-> NoColor, sponsorPosition |-> "", artboardRect |-> Null, artworkLayer |-> "",
     sponsorItems |-> <<>>, hexItems |-> <<>>, masuriTabItems |-> <<>>, guidesLayer |-> "",
     sponsorGroup |-> 0, hexGroup |-> 0, masuriTabGroup |-> 0,
     sponsorHexGroup |-> 0, masterGroup |-> 0]

\* the script is started with the source document open and active
InitRun(in) ==
    /\ input = in
    /\ pc = "showConfigDialog"
    /\ app = [activeDocument |-> "source", documents |-> {"source"}, clipboard |-> <<>>,
              showTransparencyGrid |-> FALSE, closedWithoutSaving |-> {}, newDocSaved |-> TRUE,
              written |-> {}, sourceArt |-> in.sourceArt]
    /\ sourceSelection = in.sourceSelection
    /\ layers = <<>>
    /\ selection = <<>>
    /\ local = NoLocals
    /\ nextId = FirstNewId
    /\ alerts = <<>>
    /\ caught = <<>>
    /\ failedAt = "none"
    /\ removeThrew = FALSE

Init ==
    /\ call = [fn |-> "main", args |-> <<>>]
    /\ ret = Pending
    /\ \E in \in Inputs : InitRun(in)

(* ---------------------------------------------------------------------- *)
(* SpecBounds: the bounding-box functions on bounded inputs                *)
(* ---------------------------------------------------------------------- *)
Coords == 0..MaxCoord

\* the rectangles a host reports: left <= right and bottom <= top
Rects == {<<Pt(l), Pt(t), Pt(r), Pt(b)>> : l \in Coords, t \in Coords, r \in Coords, b \in Coords}
         \ {q \in {<<Pt(l), Pt(t), Pt(r), Pt(b)>> : l \in Coords, t \in Coords, r \in Coords, b \in Coords} :
                q[1][1] > q[3][1] \/ q[4][1] > q[2][1]}
\* those of positive width and height
ProperRects == {q \in Rects : q[1][1] < q[3][1] /\ q[4][1] < q[2][1]}

\* lists of up to n path items of positive width and height
RECURSIVE ItemLists(_)
ItemLists(n) ==
    IF n = 0 THEN {<<>>}
    ELSE LET shorter == ItemLists(n - 1)
         IN  shorter \cup {Append(s, PathItem(q)) : s \in {x \in shorter : Len(x) = n - 1}, q \in ProperRects}

\* the page items of a layer, or a selection: up to MaxItems items, or one
\* item that can be flat (a straight line, a point)
ItemCollections == ItemLists(MaxItems) \cup {<<PathItem(q)>> : q \in Rects}

\* the target boxes, in centimetres: main's (11, 8) and two more
TargetBoxes == {<<Pt(11), Pt(8)>>, <<Pt(8), Pt(11)>>, <<Pt(1), Pt(1)>>}

\* hex groups: paths, a compound path and nested groups over two rectangles
HexGroups ==
    {GroupItem(<<PathItem(p), PathItem(q)>>) : p \in ProperRects, q \in ProperRects}
    \cup {GroupItem(<<GroupItem(<<PathItem(p), CompoundPathItem(q)>>)>>) : p \in ProperRects, q \in ProperRects}
    \cup {GroupItem(<<CompoundPathItem(p), GroupItem(<<GroupItem(<<PathItem(q)>>)>>)>>) : p \in ProperRects, q \in ProperRects}

\* lengths in centimetres handed to the positioning functions
Centimetres == {Pt(0), Pt(1), Rat(1, 2)}

\* artboards at the origin and off it
ArtboardRects == {ArtboardRect(0, 0), ArtboardRect(1, 2)}

\* layers with a group first, a group second, and no group
GroupLayers ==
    {[pageItems |-> <<GroupItem(<<PathItem(q)>>)>>] : q \in ProperRects}
    \cup {[pageItems |-> <<PathItem(p), GroupItem(<<PathItem(q)>>)>>] : p \in ProperRects, q \in ProperRects}
    \cup {[pageItems |-> <<PathItem(q)>>] : q \in ProperRects}

\* what is pasted from GUIDES.svg: a line and a group of a line
PastedGuides == {<<PathItem(p), GroupItem(<<PathItem(q)>>)>> : p \in Rects, q \in Rects}

InitBounds ==
    /\ ret = Pending
    /\ InitRun(CHOOSE in \in PlainInputs : TRUE)
    /\ \/ \E a \in Rects, b \in Rects :
             call = [fn |-> "boundsIntersect", args |-> <<a, b>>]
       \/ \E items \in ItemCollections :
             call = [fn |-> "getLayerBounds", args |-> <<[pageItems |-> items]>>]
       \/ \E sel \in ItemCollections, box \in TargetBoxes :
             call = [fn |-> "scaleToFit", args |-> <<sel, box[1], box[2]>>]
       \/ \E q \in ProperRects :
             call = [fn |-> "scaleToFit", args |-> <<<<PathItem(q)>>, Pt(0), Pt(0)>>]
       \/ \E q \in ProperRects, xCm \in Centimetres, yCm \in Centimetres, a \in ArtboardRects :
             call = [fn |-> "positionGroupAbsolute", args |-> <<GroupItem(<<PathItem(q)>>), xCm, yCm, a>>]
       \/ \E layer \in GroupLayers, xCm \in Centimetres, yCm \in Centimetres :
             call = [fn |-> "positionLayerGroup", args |-> <<layer, xCm, yCm>>]
       \/ \E pastedItems \in PastedGuides :
             call = [fn |-> "importGuidesFromSVG", args |-> <<pastedItems>>]
       \/ \E s \in Rects, h \in Rects, m \in PositionTypes :
             call = [fn |-> "positionGroupRelativeToGroup",
                     args |-> <<GroupItem(<<PathItem(s)>>), GroupItem(<<PathItem(h)>>), m>>]
       \/ \E hg \in HexGroups, s \in ProperRects :
             call = [fn |-> "removeOverlappingPathsInGroups",
                     args |-> <<hg, GroupItem(<<PathItem(s)>>)>>]

ApplyBoundsIntersect ==
    /\ call.fn = "boundsIntersect" /\ ret = Pending
    /\ ret' = <<boundsIntersect(call.args[1], call.args[2])>>
    /\ UNCHANGED <<call, runVars>>

ApplyGetLayerBounds ==
    /\ call.fn = "getLayerBounds" /\ ret = Pending
    /\ ret' = <<getLayerBounds(call.args[1])>>
    /\ UNCHANGED <<call, runVars>>

\* the resize calls scaleToFit makes, one <<scaleX, scaleY>> per item
ApplyScaleToFit ==
    /\ call.fn = "scaleToFit" /\ ret = Pending
    /\ ret' = <<scaleToFit(call.args[1], call.args[2], call.args[3])>>
    /\ UNCHANGED <<call, runVars>>

\* the two groups after sponsorGroup.translate(deltaX, deltaY)
ApplyPositionGroupRelativeToGroup ==
    /\ call.fn = "positionGroupRelativeToGroup" /\ ret = Pending
    /\ LET d == positionGroupRelativeToGroup(call.args[1], call.args[2], call.args[3])
       IN  ret' = <<[sponsorGroup |-> TranslateItem(call.args[1], d[1], d[2]),
                     hexGroup |-> call.args[2]]>>
    /\ UNCHANGED <<call, runVars>>

\* the hex group after the removals, and the items that were removed
ApplyRemoveOverlappingPathsInGroups ==
    /\ call.fn = "removeOverlappingPathsInGroups" /\ ret = Pending
    /\ ret' = <<[hexGroup |-> removeOverlappingPathsInGroups(call.args[1], call.args[2]),
                 sponsorGroup |-> call.args[2],
                 removed |-> pathsToDelete(call.args[1], call.args[2])]>>
    /\ UNCHANGED <<call, runVars>>

\* the arguments of group.translate
ApplyPositionGroupAbsolute ==
    /\ call.fn = "positionGroupAbsolute" /\ ret = Pending
    /\ ret' = <<positionGroupAbsolute(call.args[1], call.args[2], call.args[3], call.args[4])>>
    /\ UNCHANGED <<call, runVars>>

\* the arguments of group.translate, or null when nothing is moved
ApplyPositionLayerGroup ==
    /\ call.fn = "positionLayerGroup" /\ ret = Pending
    /\ ret' = <<positionLayerGroup(call.args[1], call.args[2], call.args[3])>>
    /\ UNCHANGED <<call, runVars>>

\* the page items of the Guides layer
ApplyImportGuidesFromSVG ==
    /\ call.fn = "importGuidesFromSVG" /\ ret = Pending
    /\ ret' = <<importGuidesFromSVG(call.args[1])>>
    /\ UNCHANGED <<call, runVars>>

NextBounds ==
    \/ ApplyBoundsIntersect
    \/ ApplyGetLayerBounds
    \/ ApplyScaleToFit
    \/ ApplyPositionGroupAbsolute
    \/ ApplyPositionLayerGroup
    \/ ApplyImportGuidesFromSVG
    \/ ApplyPositionGroupRelativeToGroup
    \/ ApplyRemoveOverlappingPathsInGroups

SpecBounds == InitBounds /\ [][NextBounds]_vars

Returned(fn) == call.fn = fn /\ ret # Pending

(* ---------------------------------------------------------------------- *)
(* Spec: one run of main()                                                 *)
(* ---------------------------------------------------------------------- *)
Fails(site) == input.fails = site

LayerIndex(key) == CHOOSE i \in 1..Len(layers) : layers[i].key = key

ArtworkItems == layers[LayerIndex(local.artworkLayer)].pageItems

\* the layers with the page items of one of them replaced
WithPageItems(key, items) == [layers EXCEPT ![LayerIndex(key)].pageItems = items]

\* the item a reference of main() points to
Deref(id) == FindItem(ArtworkItems, id, 1)[1]

\* an error that is lost: main() goes on as if nothing was thrown
Throw_Lost(site, message, line) ==
    /\ failedAt' = site
    /\ pc' = "clearSelection"
    /\ UNCHANGED <<boundsVars, input, docVars, alerts, caught, removeThrew>>

\* an error reaches the catch block of main()
Throw(site, message, line) ==
    /\ failedAt' = site
    /\ caught' = <<[message |-> message, line |-> line]>>
    /\ pc' = "catch"
    /\ UNCHANGED <<boundsVars, input, docVars, alerts, removeThrew>>

Alert(kind, text, line) == [kind |-> kind, text |-> text, line |-> line]

\* var config = showConfigDialog(); if (!config) return;
ShowConfigDialog ==
    /\ pc = "showConfigDialog"
    /\ IF Fails("showConfigDialog") THEN Throw("showConfigDialog", input.hostMessage, 510)
       ELSE LET config == showConfigDialog(input.ok, input.color, input.position)
            IN  /\ IF config = Null
                   THEN pc' = "done" /\ local' = local
                   ELSE /\ pc' = "locateFiles"
                        /\ local' = [local EXCEPT !.hexColor = config[1].color,
                                                  !.sponsorPosition = config[1].position]
                /\ UNCHANGED <<boundsVars, input, app, sourceSelection, layers, selection, nextId,
                               alerts, caught, failedAt, removeThrew>>

\* var sourceDoc = app.activeDocument; ... new File(...)
LocateFiles ==
    /\ pc = "locateFiles"
    /\ IF Fails("locateFiles") THEN Throw("locateFiles", input.hostMessage, 40)
       ELSE /\ pc' = "verifyFiles"
            /\ UNCHANGED <<boundsVars, input, docVars, alerts, caught, failedAt, removeThrew>>

\* the file checks without the one for GUIDES.svg
VerifyFiles_GuidesUnchecked ==
    /\ pc = "verifyFiles"
    /\ IF "HEX.eps" \notin input.exists
       THEN /\ alerts' = Append(alerts, Alert("notFound", <<"HEX.eps", "template", "not", "found", "at:">>, 53))
            /\ pc' = "done"
       ELSE IF "MASURI TAB.svg" \notin input.exists
       THEN /\ alerts' = Append(alerts, Alert("notFound", <<"MASURI TAB.svg", "not", "found", "at:">>, 57))
            /\ pc' = "done"
       ELSE /\ alerts' = alerts
            /\ pc' = "openTemplate"
    /\ UNCHANGED <<boundsVars, input, docVars, caught, failedAt, removeThrew>>

\* if (!hexTemplateFile.exists) { alert(...); return; } ...
VerifyFiles ==
    /\ pc = "verifyFiles"
    /\ IF "HEX.eps" \notin input.exists
       THEN /\ alerts' = Append(alerts, Alert("notFound", <<"HEX.eps", "template", "not", "found", "at:">>, 53))
            /\ pc' = "done"
       ELSE IF "MASURI TAB.svg" \notin input.exists
       THEN /\ alerts' = Append(alerts, Alert("notFound", <<"MASURI TAB.svg", "not", "found", "at:">>, 57))
            /\ pc' = "done"
       ELSE IF "GUIDES.svg" \notin input.exists
       THEN /\ alerts' = Append(alerts, Alert("notFound", <<"GUIDES.svg", "not", "found", "at:">>, 61))
            /\ pc' = "done"
       ELSE /\ alerts' = alerts
            /\ pc' = "openTemplate"
    /\ UNCHANGED <<boundsVars, input, docVars, caught, failedAt, removeThrew>>

\* var newDoc = app.open(hexTemplateFile);
OpenTemplate ==
    /\ pc = "openTemplate"
    /\ IF Fails("openTemplate") THEN Throw("openTemplate", input.hostMessage, 66)
       ELSE /\ app' = openDocument(app, "new")
            /\ layers' = input.template.layers
            /\ pc' = "markUnsaved"
            /\ UNCHANGED <<boundsVars, input, sourceSelection, selection, local, nextId,
                           alerts, caught, failedAt, removeThrew>>

\* try { newDoc.saved = false; } catch (e) { }
MarkUnsaved ==
    /\ pc = "markUnsaved"
    /\ IF Fails("markUnsaved")
       THEN failedAt' = "markUnsaved" /\ app' = app
       ELSE failedAt' = failedAt /\ app' = [app EXCEPT !.newDocSaved = FALSE]
    /\ pc' = "prepareArtworkLayer"
    /\ UNCHANGED <<boundsVars, input, sourceSelection, layers, selection, local, nextId,
                   alerts, caught, removeThrew>>

ArtworkLayerNames == {"Hex", "Layer 1", "Artwork"}

\* setBooleanPreference; artboardRect; find the layer to call "Artwork"
PrepareArtworkLayer ==
    /\ pc = "prepareArtworkLayer"
    /\ IF Fails("prepareArtworkLayer") THEN Throw("prepareArtworkLayer", input.hostMessage, 77)
       ELSE LET named == {i \in 1..Len(layers) : layers[i].name \in ArtworkLayerNames}
                found == IF named # {} THEN CHOOSE i \in named : \A j \in named : i <= j
                         ELSE IF Len(layers) > 0 THEN 1 ELSE 0
            IN  /\ app' = [app EXCEPT !.showTransparencyGrid = TRUE]
                /\ layers' = IF found = 0 THEN layers
                             ELSE [layers EXCEPT ![found].name = "Artwork"]
                /\ local' = [local EXCEPT !.artboardRect = input.template.artboardRect,
                                          !.artworkLayer = IF found = 0 THEN "" ELSE layers[found].key]
                /\ pc' = "selectSourceArtwork"
                /\ UNCHANGED <<boundsVars, input, sourceSelection, selection, nextId,
                               alerts, caught, failedAt, removeThrew>>

\* the selection of the source artwork without the filter
SelectSourceArtwork_Unfiltered ==
    /\ pc = "selectSourceArtwork"
    /\ IF Fails("selectSourceArtwork") THEN Throw("selectSourceArtwork", input.hostMessage, 100)
       ELSE /\ app' = [app EXCEPT !.activeDocument = "source"]
            /\ sourceSelection' = [k \in 1..Len(app.sourceArt) |-> k]
            /\ pc' = "copySponsor"
            /\ UNCHANGED <<boundsVars, input, layers, selection, local, nextId,
                           alerts, caught, failedAt, removeThrew>>

\* sourceDoc.activate(); selectObjectsOnActiveArtboard(); filter out guides
SelectSourceArtwork ==
    /\ pc = "selectSourceArtwork"
    /\ IF Fails("selectSourceArtwork") THEN Throw("selectSourceArtwork", input.hostMessage, 100)
       ELSE LET onArtboard == [k \in 1..Len(app.sourceArt) |-> k]
                filteredSelection == SelectSeq(onArtboard, LAMBDA k : ~app.sourceArt[k].guides)
            IN  /\ app' = [app EXCEPT !.activeDocument = "source"]
                /\ sourceSelection' = IF Len(onArtboard) > 0 THEN filteredSelection ELSE onArtboard
                /\ pc' = "copySponsor"
                /\ UNCHANGED <<boundsVars, input, layers, selection, local, nextId,
                               alerts, caught, failedAt, removeThrew>>

\* app.paste() of the host into a layer: the clipboard's items become new
\* page items of the layer, after the ones it has (main() takes the items
\* from index itemCountBefore on to be the new ones)
Paste(key, clip) == WithPageItems(key, layers[LayerIndex(key)].pageItems \o WithIds(clip, nextId))

\* if (sourceDoc.selection.length > 0) { app.copy(); ...; app.paste();
CopySponsor ==
    /\ pc = "copySponsor"
    /\ IF Len(sourceSelection) = 0
       THEN /\ pc' = "collectHexItems"
            /\ UNCHANGED <<boundsVars, input, docVars, alerts, caught, failedAt, removeThrew>>
       ELSE IF Fails("copySponsor") THEN Throw("copySponsor", input.hostMessage, 121)
       ELSE LET clip == [k \in 1..Len(sourceSelection) |-> app.sourceArt[sourceSelection[k]]]
                pasted == Paste(local.artworkLayer, clip)
            IN  /\ app' = [app EXCEPT !.clipboard = clip, !.activeDocument = "new"]
                /\ layers' = [pasted EXCEPT ![LayerIndex(local.artworkLayer)].locked = FALSE]
                /\ selection' = IdsOf(WithIds(clip, nextId))
                /\ nextId' = nextId + Len(clip)
                /\ pc' = "scaleSponsor"
                /\ UNCHANGED <<boundsVars, input, sourceSelection, local,
                               alerts, caught, failedAt, removeThrew>>

\* the selected items of the artwork layer, in selection order
Selected(ids) == [k \in 1..Len(ids) |-> Deref(ids[k])]

\* a collection with some of its top-level items replaced (matched by id)
RECURSIVE PutBack(_, _, _)
PutBack(items, changed, i) ==
    IF i > Len(changed) THEN items
    ELSE PutBack(ReplaceItem(items, changed[i].id, changed[i]), changed, i + 1)

\* scaleToFit(newDoc.selection, 11, 8);
ScaleSponsor ==
    /\ pc = "scaleSponsor"
    /\ IF Fails("scaleSponsor")
       THEN Throw("scaleSponsor", <<"Failed", "to", "scale", "selection:">> \o input.hostMessage, 497)
       ELSE LET sel == Selected(selection)
                resizes == scaleToFit(sel, Pt(11), Pt(8))
                resized == [k \in 1..Len(resizes) |-> Resize(sel[k], resizes[k][1], resizes[k][2])]
            IN  /\ layers' = WithPageItems(local.artworkLayer, PutBack(ArtworkItems, resized, 1))
                /\ pc' = "storeSponsorItems"
                /\ UNCHANGED <<boundsVars, input, app, sourceSelection, selection, local, nextId,
                               alerts, caught, failedAt, removeThrew>>

\* sponsorItems.push(newDoc.selection[i]); newDoc.selection = null;
StoreSponsorItems ==
    /\ pc = "storeSponsorItems"
    /\ IF Fails("storeSponsorItems") THEN Throw("storeSponsorItems", input.hostMessage, 138)
       ELSE /\ local' = [local EXCEPT !.sponsorItems = selection]
            /\ selection' = <<>>
            /\ pc' = "collectHexItems"
            /\ UNCHANGED <<boundsVars, input, app, sourceSelection, layers, nextId,
                           alerts, caught, failedAt, removeThrew>>

\* hexItems: the page items of the artwork layer that are not sponsor items
CollectHexItems ==
    /\ pc = "collectHexItems"
    /\ IF Fails("collectHexItems") THEN Throw("collectHexItems", input.hostMessage, 142)
       ELSE /\ app' = [app EXCEPT !.activeDocument = "new"]
            /\ layers' = [layers EXCEPT ![LayerIndex(local.artworkLayer)].locked = FALSE]
            /\ local' = [local EXCEPT !.hexItems =
                            SelectSeq(IdsOf(ArtworkItems), LAMBDA id : ~InSeq(id, local.sponsorItems))]
            /\ pc' = "applyColor"
            /\ UNCHANGED <<boundsVars, input, sourceSelection, selection, nextId,
                           alerts, caught, failedAt, removeThrew>>

\* applyColorToItems(hexItems, hexColor);
ApplyColor ==
    /\ pc = "applyColor"
    /\ IF Fails("applyColor") /\ Len(local.hexItems) > 0
       THEN Throw("applyColor", input.hostMessage, 1025)
       ELSE /\ layers' = WithPageItems(local.artworkLayer,
                            PutBack(ArtworkItems,
                                    applyColorToItems(Selected(local.hexItems), local.hexColor), 1))
            /\ pc' = "importMasuriTab"
            /\ UNCHANGED <<boundsVars, input, app, sourceSelection, selection, local, nextId,
                           alerts, caught, failedAt, removeThrew>>

\* importSVGByOpening(masuriTabSVGFile, newDoc, artworkLayer) and
\* masuriTabItems: the page items from index itemCountBefore on
ImportMasuriTab ==
    /\ pc = "importMasuriTab"
    /\ IF Fails("importMasuriTab")
       THEN Throw("importMasuriTab", <<"Failed", "to", "import", "SVG:">> \o input.hostMessage, 366)
       ELSE IF Fails("pasteMasuriTab") /\ Len(input.masuriTabArt) > 0
       THEN /\ failedAt' = "pasteMasuriTab"
            /\ caught' = <<[message |-> <<"Failed", "to", "import", "SVG:">> \o input.hostMessage,
                            line |-> 366]>>
            /\ app' = [openDocument(app, "MASURI TAB.svg") EXCEPT !.clipboard = input.masuriTabArt,
                                                                  !.activeDocument = "new"]
            /\ pc' = "catch"
            /\ UNCHANGED <<boundsVars, input, sourceSelection, layers, selection, local, nextId,
                           alerts, removeThrew>>
       ELSE LET itemCountBefore == Len(ArtworkItems)
                clip == input.masuriTabArt
                pasted == IF Len(clip) > 0 THEN Paste(local.artworkLayer, clip) ELSE layers
                after == pasted[LayerIndex(local.artworkLayer)].pageItems
                svgDoc == openDocument(app, "MASURI TAB.svg")
            IN  /\ app' = [closeDocument(svgDoc, "MASURI TAB.svg", "DONOTSAVECHANGES") EXCEPT
                              !.clipboard = IF Len(clip) > 0 THEN clip ELSE @,
                              !.activeDocument = "new"]
                /\ layers' = [pasted EXCEPT ![LayerIndex(local.artworkLayer)].locked = FALSE]
                /\ selection' = IF Len(clip) > 0 THEN IdsOf(WithIds(clip, nextId)) ELSE selection
                /\ nextId' = nextId + Len(clip)
                /\ local' = [local EXCEPT !.masuriTabItems =
                                IdsOf(SubSeq(after, itemCountBefore + 1, Len(after)))]
                /\ pc' = "importGuides"
                /\ UNCHANGED <<boundsVars, input, sourceSelection,
                               alerts, caught, failedAt, removeThrew>>

\* var guidesLayer = importGuidesFromSVG(guidesSVGFile, newDoc);
ImportGuides ==
    /\ pc = "importGuides"
    /\ IF Fails("importGuides")
       THEN Throw("importGuides", <<"Failed", "to", "import", "guides:">> \o input.hostMessage, 892)
       ELSE IF Fails("pasteGuides") /\ Len(input.guidesArt) > 0
       THEN /\ failedAt' = "pasteGuides"
            /\ caught' = <<[message |-> <<"Failed", "to", "import", "guides:">> \o input.hostMessage,
                            line |-> 892]>>
            /\ layers' = <<[key |-> "G", name |-> "Guides", locked |-> FALSE, pageItems |-> <<>>]>>
                            \o layers
            /\ app' = [openDocument(app, "GUIDES.svg") EXCEPT !.clipboard = input.guidesArt,
                                                              !.activeDocument = "new"]
            /\ pc' = "catch"
            /\ UNCHANGED <<boundsVars, input, sourceSelection, selection, local, nextId,
                           alerts, removeThrew>>
       ELSE LET clip == input.guidesArt
                svgDoc == openDocument(app, "GUIDES.svg")
                pastedItems == WithIds(clip, nextId)
                guidesLayer == [key |-> "G", name |-> "Guides", locked |-> FALSE,
                                pageItems |-> importGuidesFromSVG(pastedItems)]
            IN  /\ layers' = <<guidesLayer>> \o layers
                /\ app' = [closeDocument(svgDoc, "GUIDES.svg", "DONOTSAVECHANGES") EXCEPT
                              !.clipboard = IF Len(clip) > 0 THEN clip ELSE @,
                              !.activeDocument = "new"]
                /\ selection' = IF Len(clip) > 0 THEN IdsOf(pastedItems) ELSE selection
                /\ nextId' = nextId + Len(clip)
                /\ local' = [local EXCEPT !.guidesLayer = "G"]
                /\ pc' = "groupGuides"
                /\ UNCHANGED <<boundsVars, input, sourceSelection,
                               alerts, caught, failedAt, removeThrew>>

\* if (guidesLayer) { groupLayerContents(guidesLayer);
GroupGuides ==
    /\ pc = "groupGuides"
    /\ IF local.guidesLayer = ""
       THEN /\ pc' = "groupSponsor"
            /\ UNCHANGED <<boundsVars, input, docVars, alerts, caught, failedAt, removeThrew>>
       ELSE IF Fails("groupGuides")
       THEN Throw("groupGuides", <<"Failed", "to", "group", "layer", "contents:">> \o input.hostMessage, 407)
       ELSE LET items == layers[LayerIndex(local.guidesLayer)].pageItems
            IN  /\ layers' = WithPageItems(local.guidesLayer, GroupSelected(items, IdsOf(items), nextId))
                /\ nextId' = IF Len(items) > 0 THEN nextId + 1 ELSE nextId
                /\ selection' = <<>>
                /\ pc' = "lockGuides"
                /\ UNCHANGED <<boundsVars, input, app, sourceSelection, local,
                               alerts, caught, failedAt, removeThrew>>

\* guidesLayer.locked = true; }
LockGuides ==
    /\ pc = "lockGuides"
    /\ IF Fails("lockGuides") THEN Throw("lockGuides", input.hostMessage, 184)
       ELSE /\ layers' = [layers EXCEPT ![LayerIndex(local.guidesLayer)].locked = TRUE]
            /\ pc' = "groupSponsor"
            /\ UNCHANGED <<boundsVars, input, app, sourceSelection, selection, local, nextId,
                           alerts, caught, failedAt, removeThrew>>

\* newDoc.selection = items; app.executeMenuCommand("group"); the group is
\* named and kept in a local variable; newDoc.selection = null
GroupAndName(ids, name) ==
    LET grouped == GroupSelected(ArtworkItems, ids, nextId)
        group == [FindItem(grouped, nextId, 1)[1] EXCEPT !.name = name]
    IN  WithPageItems(local.artworkLayer, ReplaceItem(grouped, nextId, group))

\* Group Sponsor items
GroupSponsor ==
    /\ pc = "groupSponsor"
    /\ IF Fails("groupSponsor") THEN Throw("groupSponsor", input.hostMessage, 188)
       ELSE /\ IF Len(local.sponsorItems) > 0
               THEN /\ layers' = GroupAndName(local.sponsorItems, "Sponsor")
                    /\ local' = [local EXCEPT !.sponsorGroup = nextId]
                    /\ nextId' = nextId + 1
               ELSE UNCHANGED <<layers, local, nextId>>
            /\ selection' = <<>>
            /\ pc' = "groupHex"
            /\ UNCHANGED <<boundsVars, input, app, sourceSelection,
                           alerts, caught, failedAt, removeThrew>>

\* Group Hex items
GroupHex ==
    /\ pc = "groupHex"
    /\ IF Fails("groupHex") /\ Len(local.hexItems) > 0
       THEN Throw("groupHex", input.hostMessage, 206)
       ELSE /\ IF Len(local.hexItems) > 0
               THEN /\ layers' = GroupAndName(local.hexItems, "Hex")
                    /\ local' = [local EXCEPT !.hexGroup = nextId]
                    /\ nextId' = nextId + 1
                    /\ selection' = <<>>
               ELSE UNCHANGED <<layers, local, nextId, selection>>
            /\ pc' = "groupMasuriTab"
            /\ UNCHANGED <<boundsVars, input, app, sourceSelection,
                           alerts, caught, failedAt, removeThrew>>

\* Group Masuri Tab items
GroupMasuriTab ==
    /\ pc = "groupMasuriTab"
    /\ IF Fails("groupMasuriTab") /\ Len(local.masuriTabItems) > 0
       THEN Throw("groupMasuriTab", input.hostMessage, 218)
       ELSE /\ IF Len(local.masuriTabItems) > 0
               THEN /\ layers' = GroupAndName(local.masuriTabItems, "Masuri Tab")
                    /\ local' = [local EXCEPT !.masuriTabGroup = nextId]
                    /\ nextId' = nextId + 1
                    /\ selection' = <<>>
               ELSE UNCHANGED <<layers, local, nextId, selection>>
            /\ pc' = "unlockGroups"
            /\ UNCHANGED <<boundsVars, input, app, sourceSelection,
                           alerts, caught, failedAt, removeThrew>>

\* sponsorGroup.locked = false; sponsorGroup.hidden = false; ... (the
\* groups are new and neither locked nor hidden)
UnlockGroups ==
    /\ pc = "unlockGroups"
    /\ IF /\ Fails("unlockGroups")
          /\ (local.sponsorGroup # 0 \/ local.hexGroup # 0 \/ local.masuriTabGroup # 0)
       THEN Throw("unlockGroups", input.hostMessage, 232)
       ELSE /\ pc' = "groupSponsorHex"
            /\ UNCHANGED <<boundsVars, input, docVars, alerts, caught, failedAt, removeThrew>>

\* Step 1: group sponsor and hex together, then the first debug alert
GroupSponsorHex ==
    /\ pc = "groupSponsorHex"
    /\ IF ~(local.sponsorGroup # 0 /\ local.hexGroup # 0 /\ local.masuriTabGroup # 0)
       THEN /\ pc' = "positionSponsor"
            /\ UNCHANGED <<boundsVars, input, docVars, alerts, caught, failedAt, removeThrew>>
       ELSE IF Fails("groupSponsorHex") THEN Throw("groupSponsorHex", input.hostMessage, 250)
       ELSE /\ layers' = GroupAndName(<<local.sponsorGroup, local.hexGroup>>, "SponsorHex_Temp")
            /\ local' = [local EXCEPT !.sponsorHexGroup = nextId]
            /\ nextId' = nextId + 1
            /\ selection' = <<>>
            /\ alerts' = Append(alerts, Alert("debug", <<"Before", "step", "2:">>, 261))
            /\ pc' = "groupMaster"
            /\ UNCHANGED <<boundsVars, input, app, sourceSelection, caught, failedAt, removeThrew>>

\* Step 2: group that with masuri tab to create the final Artwork group,
\* with two more debug alerts
GroupMaster ==
    /\ pc = "groupMaster"
    /\ IF ~(local.sponsorHexGroup # 0 /\ local.masuriTabGroup # 0)
       THEN /\ pc' = "positionSponsor"
            /\ UNCHANGED <<boundsVars, input, docVars, alerts, caught, failedAt, removeThrew>>
       ELSE IF Fails("groupMaster") THEN Throw("groupMaster", input.hostMessage, 282)
       ELSE /\ layers' = GroupAndName(<<local.sponsorHexGroup, local.masuriTabGroup>>, "Artwork")
            /\ local' = [local EXCEPT !.masterGroup = nextId]
            /\ nextId' = nextId + 1
            /\ selection' = <<>>
            /\ alerts' = alerts \o <<Alert("debug", <<"Can", "select", "for", "step", "2?">>, 276),
                                     Alert("debug", <<"Combined", "selection", "length:">>, 279)>>
            /\ pc' = "positionSponsor"
            /\ UNCHANGED <<boundsVars, input, app, sourceSelection, caught, failedAt, removeThrew>>

\* the artwork layer with one item, at any depth, replaced
WithItem(new) == WithPageItems(local.artworkLayer, ReplaceItem(ArtworkItems, new.id, new))

\* positionGroupRelativeToGroup(sponsorGroup, hexGroup, sponsorPosition);
PositionSponsor ==
    /\ pc = "positionSponsor"
    /\ IF ~(local.sponsorGroup # 0 /\ local.hexGroup # 0)
       THEN /\ pc' = "removeOverlaps"
            /\ UNCHANGED <<boundsVars, input, docVars, alerts, caught, failedAt, removeThrew>>
       ELSE IF Fails("positionSponsor") THEN Throw("positionSponsor", input.hostMessage, 1064)
       ELSE LET d == positionGroupRelativeToGroup(Deref(local.sponsorGroup), Deref(local.hexGroup),
                                                  local.sponsorPosition)
            IN  /\ layers' = WithItem(TranslateItem(Deref(local.sponsorGroup), d[1], d[2]))
                /\ pc' = "removeOverlaps"
                /\ UNCHANGED <<boundsVars, input, app, sourceSelection, selection, local, nextId,
                               alerts, caught, failedAt, removeThrew>>

\* main() without the overlap removal
RemoveOverlaps_Skipped ==
    /\ pc = "removeOverlaps"
    /\ pc' = "centerHexAndSponsor"
    /\ UNCHANGED <<boundsVars, input, docVars, alerts, caught, failedAt, removeThrew>>

\* removeOverlappingPathsInGroups(hexGroup, sponsorGroup);
RemoveOverlaps ==
    /\ pc = "removeOverlaps"
    /\ IF ~(local.sponsorGroup # 0 /\ local.hexGroup # 0)
       THEN /\ pc' = "centerHexAndSponsor"
            /\ UNCHANGED <<boundsVars, input, docVars, alerts, caught, failedAt, removeThrew>>
       ELSE IF Fails("removeOverlaps") THEN Throw("removeOverlaps", input.hostMessage, 1084)
       ELSE /\ layers' = WithItem(removeOverlappingPathsInGroups(Deref(local.hexGroup),
                                                                  Deref(local.sponsorGroup)))
            /\ pc' = "centerHexAndSponsor"
            /\ UNCHANGED <<boundsVars, input, app, sourceSelection, selection, local, nextId,
                           alerts, caught, failedAt, removeThrew>>

\* centerTwoGroupsOnArtboard(hexGroup, sponsorGroup, artboardRect);
CenterHexAndSponsor ==
    /\ pc = "centerHexAndSponsor"
    /\ IF ~(local.sponsorGroup # 0 /\ local.hexGroup # 0)
       THEN /\ pc' = "positionMasuriTab"
            /\ UNCHANGED <<boundsVars, input, docVars, alerts, caught, failedAt, removeThrew>>
       ELSE IF Fails("centerHexAndSponsor") THEN Throw("centerHexAndSponsor", input.hostMessage, 1153)
       ELSE LET d == centerTwoGroupsOnArtboard(Deref(local.hexGroup), Deref(local.sponsorGroup),
                                               local.artboardRect)
                hexMoved == ReplaceItem(ArtworkItems, local.hexGroup,
                                        TranslateItem(Deref(local.hexGroup), d[1], d[2]))
                bothMoved == ReplaceItem(hexMoved, local.sponsorGroup,
                                         TranslateItem(Deref(local.sponsorGroup), d[1], d[2]))
            IN  /\ layers' = WithPageItems(local.artworkLayer, bothMoved)
                /\ pc' = "positionMasuriTab"
                /\ UNCHANGED <<boundsVars, input, app, sourceSelection, selection, local, nextId,
                               alerts, caught, failedAt, removeThrew>>

\* positionGroupAbsolute(masuriTabGroup, 5.7281, 18.8218 or 8.4713, artboardRect);
PositionMasuriTab ==
    /\ pc = "positionMasuriTab"
    /\ IF local.masuriTabGroup = 0 \/ local.sponsorPosition \notin PositionTypes
       THEN /\ pc' = "removeEmptyLayers"
            /\ UNCHANGED <<boundsVars, input, docVars, alerts, caught, failedAt, removeThrew>>
       ELSE IF Fails("positionMasuriTab") THEN Throw("positionMasuriTab", input.hostMessage, 1123)
       ELSE LET yCm == IF local.sponsorPosition = "Bottom Sponsor"
                       THEN Rat(188218, 10000) ELSE Rat(84713, 10000)
                d == positionGroupAbsolute(Deref(local.masuriTabGroup), Rat(57281, 10000), yCm,
                                           local.artboardRect)
            IN  /\ layers' = WithItem(TranslateItem(Deref(local.masuriTabGroup), d[1], d[2]))
                /\ pc' = "removeEmptyLayers"
                /\ UNCHANGED <<boundsVars, input, app, sourceSelection, selection, local, nextId,
                               alerts, caught, failedAt, removeThrew>>

\* removeEmptyLayers(newDoc);
RemoveEmptyLayers ==
    /\ pc = "removeEmptyLayers"
    /\ LET done == removeEmptyLayers(layers, input.removeThrows, Fails("removeEmptyLayers"))
       IN  /\ layers' = done.layers
           /\ removeThrew' = done.removeThrew
           /\ failedAt' = IF Fails("removeEmptyLayers") THEN "removeEmptyLayers" ELSE failedAt
           /\ IF done.propagated
              THEN /\ caught' = <<[message |-> input.hostMessage, line |-> 806]>>
                   /\ pc' = "catch"
              ELSE /\ caught' = caught
                   /\ pc' = "clearSelection"
    /\ UNCHANGED <<boundsVars, input, app, sourceSelection, selection, local, nextId, alerts>>

\* newDoc.selection = null;
ClearSelection ==
    /\ pc = "clearSelection"
    /\ IF Fails("clearSelection") THEN Throw("clearSelection", input.hostMessage, 323)
       ELSE /\ selection' = <<>>
            /\ pc' = "showSuccess"
            /\ UNCHANGED <<boundsVars, input, app, sourceSelection, layers, local, nextId,
                           alerts, caught, failedAt, removeThrew>>

\* alert("Hex created successfully!");
ShowSuccess ==
    /\ pc = "showSuccess"
    /\ alerts' = Append(alerts, Alert("success", <<"Hex", "created", "successfully!">>, 325))
    /\ pc' = "done"
    /\ UNCHANGED <<boundsVars, input, docVars, caught, failedAt, removeThrew>>

\* } catch (e) { alert("Error: " + e.message + "\nLine: " + e.line); }
Catch ==
    /\ pc = "catch"
    /\ alerts' = Append(alerts, Alert("error", <<"Error:">> \o caught[1].message \o <<"Line:">>,
                                      caught[1].line))
    /\ pc' = "done"
    /\ UNCHANGED <<boundsVars, input, docVars, caught, failedAt, removeThrew>>

Next ==
    \/ ShowConfigDialog
    \/ LocateFiles
    \/ VerifyFiles
    \/ OpenTemplate
    \/ MarkUnsaved
    \/ PrepareArtworkLayer
    \/ SelectSourceArtwork
    \/ CopySponsor
    \/ ScaleSponsor
    \/ StoreSponsorItems
    \/ CollectHexItems
    \/ ApplyColor
    \/ ImportMasuriTab
    \/ ImportGuides
    \/ GroupGuides
    \/ LockGuides
    \/ GroupSponsor
    \/ GroupHex
    \/ GroupMasuriTab
    \/ UnlockGroups
    \/ GroupSponsorHex
    \/ GroupMaster
    \/ PositionSponsor
    \/ RemoveOverlaps
    \/ CenterHexAndSponsor
    \/ PositionMasuriTab
    \/ RemoveEmptyLayers
    \/ ClearSelection
    \/ ShowSuccess
    \/ Catch

Spec == Init /\ [][Next]_vars

(* ---------------------------------------------------------------------- *)
(* Properties                                                              *)
(* ---------------------------------------------------------------------- *)
\* whole points of an input coordinate
Whole(x) == x[1]

\* C1: boundsIntersect(a, b) is true exactly when a.left < b.right and
\* a.right > b.left and a.bottom < b.top and a.top > b.bottom
C1_IntersectIsStrictOverlap ==
    Returned("boundsIntersect") =>
        LET a == call.args[1]
            b == call.args[2]
        IN  ret[1] = (/\ Whole(Left(a)) < Whole(Right(b))
                      /\ Whole(Right(a)) > Whole(Left(b))
                      /\ Whole(Bottom(a)) < Whole(Top(b))
                      /\ Whole(Top(a)) > Whole(Bottom(b)))

C1_Witness ==
    /\ Returned("boundsIntersect")
    /\ ret[1] = TRUE
    /\ call.args[1] # call.args[2]

\* C2: boundsIntersect is symmetric: the result for (a, b) is the result for (b, a)
C2_IntersectSymmetric ==
    Returned("boundsIntersect") =>
        ret[1] = boundsIntersect(call.args[2], call.args[1])

C2_Witness ==
    /\ Returned("boundsIntersect")
    /\ Whole(Right(call.args[1])) = Whole(Left(call.args[2]))
    /\ Whole(Left(call.args[1])) < Whole(Left(call.args[2]))
    /\ Whole(Bottom(call.args[1])) < Whole(Top(call.args[2]))
    /\ Whole(Top(call.args[1])) > Whole(Bottom(call.args[2]))

\* two rectangles that share an edge or a corner line: one's right is the
\* other's left, or one's top is the other's bottom
Touching(a, b) ==
    \/ Right(a) = Left(b)
    \/ Right(b) = Left(a)
    \/ Top(a) = Bottom(b)
    \/ Top(b) = Bottom(a)

\* C3: boundsIntersect is false for rectangles that only touch, and a hex
\* path whose box only touches the sponsor's box is not selected for removal
C3_TouchingNeverIntersects ==
    /\ Returned("boundsIntersect") /\ Touching(call.args[1], call.args[2]) => ret[1] = FALSE
    /\ Returned("removeOverlappingPathsInGroups") =>
          \A k \in 1..Len(collectPathItems(call.args[1].pageItems, <<>>, 1)) :
              LET p == collectPathItems(call.args[1].pageItems, <<>>, 1)[k]
              IN  Touching(ItemAt(call.args[1].pageItems, p).geometricBounds,
                           call.args[2].geometricBounds)
                  => ~InSeq(p, ret[1].removed)

C3_Witness ==
    /\ Returned("removeOverlappingPathsInGroups")
    /\ Len(ret[1].removed) = 1
    /\ \E k \in 1..Len(collectPathItems(call.args[1].pageItems, <<>>, 1)) :
          Touching(ItemAt(call.args[1].pageItems,
                          collectPathItems(call.args[1].pageItems, <<>>, 1)[k]).geometricBounds,
                   call.args[2].geometricBounds)


SetMin(S) == CHOOSE x \in S : \A y \in S : x <= y
SetMax(S) == CHOOSE x \in S : \A y \in S : x >= y

\* the whole-point coordinate k of every item of a list
CoordsOf(items, k) == {Whole(items[i].geometricBounds[k]) : i \in 1..Len(items)}

\* [min of lefts, max of tops, max of rights, min of bottoms]
BoxAround(items) ==
    <<Pt(SetMin(CoordsOf(items, 1))), Pt(SetMax(CoordsOf(items, 2))),
      Pt(SetMax(CoordsOf(items, 3))), Pt(SetMin(CoordsOf(items, 4)))>>

\* C4: getLayerBounds is [min of lefts, max of tops, max of rights, min of
\* bottoms] of a non-empty list of page items (the item's own rectangle for
\* a single item) and null for a layer without page items
C4_LayerBoundsIsUnion ==
    Returned("getLayerBounds") =>
        LET items == call.args[1].pageItems
        IN  /\ Len(items) = 0 => ret[1] = Null
            /\ Len(items) > 0 => ret[1] = BoxAround(items)
            /\ Len(items) = 1 => ret[1] = items[1].geometricBounds

C4_Witness ==
    /\ Returned("getLayerBounds")
    /\ Len(call.args[1].pageItems) = 2
    /\ ret[1] # call.args[1].pageItems[1].geometricBounds
    /\ ret[1] # call.args[1].pageItems[2].geometricBounds

\* 100 * min(wCm * 28.3464567 / W, hCm * 28.3464567 / H) for whole W, H >= 0,
\* as a multiple of POINTS_PER_CM (a quotient by 0 is +Infinity)
FitPercentage(wCm, hCm, W, H) ==
    IF W = 0 /\ H = 0 THEN PosInf
    ELSE IF W = 0 THEN Norm(0, 100 * hCm, H)
    ELSE IF H = 0 THEN Norm(0, 100 * wCm, W)
    ELSE IF wCm * H <= hCm * W THEN Norm(0, 100 * wCm, W)
    ELSE Norm(0, 100 * hCm, H)

\* C5: scaleToFit resizes every item of a non-empty selection with the one
\* percentage 100 * min(wCm*28.3464567/W, hCm*28.3464567/H), horizontally
\* and vertically alike, W and H being the size of the combined box
C5_ScaleIsMinRatio ==
    Returned("scaleToFit") /\ Len(call.args[1]) > 0 =>
        LET box == BoxAround(call.args[1])
            W == Whole(Right(box)) - Whole(Left(box))
            H == Whole(Top(box)) - Whole(Bottom(box))
            pct == FitPercentage(Whole(call.args[2]), Whole(call.args[3]), W, H)
        IN  /\ Len(ret[1]) = Len(call.args[1])
            /\ \A i \in 1..Len(ret[1]) : ret[1][i] = <<pct, pct>>

\* a two-item selection whose box is limited by its height
C5_Witness ==
    /\ Returned("scaleToFit")
    /\ Len(call.args[1]) = 2
    /\ call.args[2] = Pt(11) /\ call.args[3] = Pt(8)
    /\ LET box == BoxAround(call.args[1])
       IN  /\ Whole(Right(box)) - Whole(Left(box)) = 1
           /\ Whole(Top(box)) - Whole(Bottom(box)) = 2
    /\ ret[1][2] = <<Norm(0, 400, 1), Norm(0, 400, 1)>>

\* twice the centre of a rectangle, on each axis
TwiceCenterX(r) == NAdd(Left(r), Right(r))
TwiceCenterY(r) == NAdd(Top(r), Bottom(r))

\* C6: in "Bottom Sponsor" mode the sponsor ends horizontally centred on the
\* hex with its bottom edge on the hex's bottom edge; the hex does not move
C6_BottomSponsorAligned ==
    Returned("positionGroupRelativeToGroup") /\ call.args[3] = "Bottom Sponsor" =>
        LET sponsorAfter == ret[1].sponsorGroup.geometricBounds
            hexBefore == call.args[2].geometricBounds
        IN  /\ TwiceCenterX(sponsorAfter) = TwiceCenterX(hexBefore)
            /\ Bottom(sponsorAfter) = Bottom(hexBefore)
            /\ ret[1].hexGroup = call.args[2]

\* the sponsor started off-centre and above the hex's bottom edge
C6_Witness ==
    /\ Returned("positionGroupRelativeToGroup") /\ call.args[3] = "Bottom Sponsor"
    /\ TwiceCenterX(call.args[1].geometricBounds) # TwiceCenterX(call.args[2].geometricBounds)
    /\ Bottom(call.args[1].geometricBounds) # Bottom(call.args[2].geometricBounds)
    /\ Top(ret[1].sponsorGroup.geometricBounds) # Top(call.args[2].geometricBounds)

\* C7: in "Middle Sponsor" mode the sponsor's centre ends on the hex's
\* centre on both axes; the hex does not move
C7_MiddleSponsorCentred ==
    Returned("positionGroupRelativeToGroup") /\ call.args[3] = "Middle Sponsor" =>
        LET sponsorAfter == ret[1].sponsorGroup.geometricBounds
            hexBefore == call.args[2].geometricBounds
        IN  /\ TwiceCenterX(sponsorAfter) = TwiceCenterX(hexBefore)
            /\ TwiceCenterY(sponsorAfter) = TwiceCenterY(hexBefore)
            /\ ret[1].hexGroup = call.args[2]

\* the sponsor started off-centre on both axes and is smaller than the hex
C7_Witness ==
    /\ Returned("positionGroupRelativeToGroup") /\ call.args[3] = "Middle Sponsor"
    /\ TwiceCenterX(call.args[1].geometricBounds) # TwiceCenterX(call.args[2].geometricBounds)
    /\ TwiceCenterY(call.args[1].geometricBounds) # TwiceCenterY(call.args[2].geometricBounds)
    /\ Bottom(ret[1].sponsorGroup.geometricBounds) # Bottom(call.args[2].geometricBounds)


(* ---------------------------------------------------------------------- *)
(* Properties of a run                                                     *)
(* ---------------------------------------------------------------------- *)
LastAlert == alerts[Len(alerts)]
Shown(kind) == \E i \in 1..Len(alerts) : alerts[i].kind = kind
EndsWith(s, t) == Len(s) >= Len(t) /\ SubSeq(s, Len(s) - Len(t) + 1, Len(s)) = t

\* the run has ended with the error alert for the host's error, and nothing after it
EndedInErrorAlert ==
    /\ Len(alerts) > 0
    /\ LastAlert.kind = "error"
    /\ EndsWith(LastAlert.text, input.hostMessage \o <<"Line:">>)
    /\ LastAlert.line = caught[1].line
    /\ ~Shown("success")

\* the host calls whose failure the script catches and drops: setting
\* newDoc.saved, and all that removeEmptyLayers does
DroppedFailures == {"markUnsaved", "removeEmptyLayers"}

\* C8 as stated: every failure of a host call other than a layer removal
\* during cleanup ends the run with the error alert, and nothing follows
C8_EveryFailureEndsInErrorAlert ==
    /\ failedAt # "none" => pc \in {"catch", "done"}
    /\ failedAt # "none" /\ pc = "done" => EndedInErrorAlert
    /\ Shown("error") => pc = "done" /\ LastAlert.kind = "error"

\* C8: every failure of a host call made while main runs, other than a
\* failure to set newDoc.saved and a failure inside removeEmptyLayers, ends
\* the run with the error alert (message and line); after that alert no
\* further step is performed and the success alert is never shown
C8_FailuresEndInErrorAlertButDropped ==
    /\ failedAt \notin DroppedFailures \cup {"none"} => pc \in {"catch", "done"}
    /\ failedAt \notin DroppedFailures \cup {"none"} /\ pc = "done" => EndedInErrorAlert
    /\ Shown("error") => pc = "done" /\ LastAlert.kind = "error"

C8_Witness ==
    /\ pc = "done"
    /\ failedAt = "centerHexAndSponsor"
    /\ LastAlert.kind = "error"
    /\ Len(alerts) = 4

\* the host calls of the major steps: template import, grouping, scaling,
\* colouring, sponsor positioning, overlap removal, centring, absolute
\* positioning, guide import
MajorStepCalls ==
    {"importMasuriTab", "groupGuides", "groupSponsor", "groupHex",
     "groupMasuriTab", "groupSponsorHex", "groupMaster", "scaleSponsor", "applyColor",
     "positionSponsor", "removeOverlaps", "centerHexAndSponsor", "positionMasuriTab",
     "importGuides"}

\* C9: every error raised inside a major step reaches the top-level handler
\* as a new error whose message is a static description beginning with
\* "Failed to", followed by the original error's message
C9_MajorStepErrorsArePrefixed ==
    pc = "catch" /\ failedAt \in MajorStepCalls =>
        LET m == caught[1].message
        IN  /\ Len(m) > Len(input.hostMessage) + 2
            /\ m[1] = "Failed" /\ m[2] = "to"
            /\ EndsWith(m, input.hostMessage)

\* C10: a failure of layer.remove() inside removeEmptyLayers does not leave
\* removeEmptyLayers: the run goes on to clear the selection and show the
\* success alert, and no error alert is shown for it
C10_RemovalFailureIsSwallowed ==
    /\ removeThrew => \/ pc \in {"clearSelection", "showSuccess", "done"}
                      \/ pc = "catch" /\ failedAt = "clearSelection"
    /\ removeThrew /\ caught # <<>> => failedAt = "clearSelection"
    /\ removeThrew /\ pc = "done" /\ failedAt # "clearSelection" =>
          /\ selection = <<>>
          /\ LastAlert.kind = "success"
          /\ ~Shown("error")

C10_Witness ==
    /\ pc = "done"
    /\ removeThrew
    /\ \E i \in 1..Len(layers) : Len(layers[i].pageItems) = 0
    /\ LastAlert.kind = "success"


\* the script has not touched the host: no document opened or made, the
\* source document active with the selection the user left, the clipboard
\* as it was
HostUntouched ==
    /\ app = [activeDocument |-> "source", documents |-> {"source"}, clipboard |-> <<>>,
              showTransparencyGrid |-> FALSE, closedWithoutSaving |-> {}, newDocSaved |-> TRUE,
              written |-> {}, sourceArt |-> input.sourceArt]
    /\ layers = <<>>
    /\ selection = <<>>
    /\ sourceSelection = input.sourceSelection
    /\ nextId = FirstNewId

\* the first of the required files, in the order main() checks them, that
\* does not exist
FirstMissing ==
    IF "HEX.eps" \notin input.exists THEN "HEX.eps"
    ELSE IF "MASURI TAB.svg" \notin input.exists THEN "MASURI TAB.svg"
    ELSE "GUIDES.svg"

\* the run ended at the file checks, having told of the first missing file
\* and nothing else
EndedAtMissingFile ==
    /\ Len(alerts) = 1
    /\ alerts[1].kind = "notFound"
    /\ alerts[1].text[1] = FirstMissing
    /\ HostUntouched

\* C11 as stated: whenever a required file does not exist the run shows the
\* "not found" alert for the first missing file and ends with the host
\* untouched and no success alert
C11_MissingFileAlwaysReported ==
    input.exists # AssetFiles =>
        /\ pc \in {"showConfigDialog", "locateFiles", "verifyFiles", "catch", "done"}
        /\ pc = "done" => EndedAtMissingFile

\* C11: if a required file does not exist and the run reaches the file
\* checks (the dialog was confirmed with OK and no host call failed before
\* them), the run shows the "not found" alert for the first missing file
\* and ends before any document is opened or created and before the source
\* selection or the clipboard is changed; the success alert is not shown
C11_MissingFileReportedAfterDialog ==
    input.exists # AssetFiles =>
        /\ pc \in {"showConfigDialog", "locateFiles", "verifyFiles", "catch", "done"}
        /\ ~Shown("success")
        /\ HostUntouched
        /\ pc = "done" /\ input.ok /\ failedAt = "none" => EndedAtMissingFile

\* only GUIDES.svg is missing, and the user had made a selection
C11_Witness ==
    /\ pc = "done"
    /\ input.exists = {"HEX.eps", "MASURI TAB.svg"}
    /\ input.sourceSelection = <<2>>
    /\ Len(alerts) = 1 /\ alerts[1].line = 61

\* C12: on Cancel showConfigDialog returns null and the run ends with no
\* effect: no document opened or created, no layer or item changed, the
\* clipboard and the source selection untouched, no alert
C12_CancelHasNoEffect ==
    ~input.ok /\ ~Fails("showConfigDialog") =>
        /\ showConfigDialog(input.ok, input.color, input.position) = Null
        /\ pc \in {"showConfigDialog", "done"}
        /\ HostUntouched
        /\ local = NoLocals
        /\ alerts = <<>>
        /\ caught = <<>>

C12_Witness ==
    /\ pc = "done"
    /\ ~input.ok
    /\ input.exists = AssetFiles
    /\ input.sourceSelection = <<2>>
    /\ alerts = <<>>

\* the hex codes documented for the colour names, as red, green, blue
DocumentedRGB ==
    [n \in {ColorNames[k] : k \in 1..Len(ColorNames)} |->
        CASE n = "Black" -> <<0, 0, 0>>
          [] n = "White" -> <<255, 255, 255>>
          [] n = "Navy" -> <<7, 36, 65>>
          [] n = "Yellow" -> <<251, 186, 0>>
          [] n = "Pink" -> <<225, 68, 152>>
          [] n = "Red" -> <<196, 41, 57>>
          [] n = "Maroon" -> <<98, 17, 34>>
          [] n = "Green" -> <<107, 155, 56>>
          [] n = "Lime Green" -> <<112, 190, 70>>
          [] n = "Emerald Green" -> <<0, 103, 58>>
          [] n = "Bottle Green" -> <<0, 82, 63>>
          [] n = "Light Blue" -> <<0, 185, 237>>
          [] n = "Royal Blue" -> <<0, 94, 163>>]

\* C13: for each of the 13 names the dialog offers, the colour it returns
\* on OK has the red, green and blue of the documented hex code, each in
\* 0..255
C13_ColoursAsDocumented ==
    /\ Len(ColorNames) = 13
    /\ input.ok /\ ~Fails("showConfigDialog") /\ pc # "showConfigDialog" =>
          /\ local.hexColor = [red |-> DocumentedRGB[input.color][1],
                               green |-> DocumentedRGB[input.color][2],
                               blue |-> DocumentedRGB[input.color][3]]
          /\ local.hexColor.red \in 0..255
          /\ local.hexColor.green \in 0..255
          /\ local.hexColor.blue \in 0..255

C13_Witness ==
    /\ pc = "done"
    /\ input.color = "Emerald Green"
    /\ local.hexColor = [red |-> 0, green |-> 103, blue |-> 58]
    /\ LastAlert.kind = "success"


\* the box around a non-empty list of items
BoxOf(items) == mergeBounds(items[1].geometricBounds, items, 2)
Width(r) == NSub(Right(r), Left(r))
Height(r) == NSub(Top(r), Bottom(r))

\* the copied artwork as it lies in the source document
CopiedArtwork == [k \in 1..Len(sourceSelection) |-> input.sourceArt[sourceSelection[k]]]

\* C14: after scaleToFit(selection, 11, 8) on the pasted sponsor items their
\* combined bounding box is at most 11 cm wide and at most 8 cm high, and
\* its width-to-height proportion is the one it had before scaling
C14_ScaledSponsorFits ==
    pc = "storeSponsorItems" =>
        LET before == BoxOf(CopiedArtwork)
            after == BoxOf(Selected(selection))
        IN  /\ ~NGreater(Width(after), NMul(Pt(11), POINTS_PER_CM))
            /\ ~NGreater(Height(after), NMul(Pt(8), POINTS_PER_CM))
            /\ NMul(Width(after), Height(before)) = NMul(Height(after), Width(before))


\* the PathItems and CompoundPathItems of a collection, those inside nested
\* GroupItems included, in document order
RECURSIVE Leaves(_)
Leaves(items) ==
    IF Len(items) = 0 THEN <<>>
    ELSE (IF items[1].typename = "GroupItem" THEN Leaves(items[1].pageItems) ELSE <<items[1]>>)
         \o Leaves(Tail(items))

\* strict overlap of two boxes of whole coordinates
Overlaps(a, b) ==
    /\ Whole(Left(a)) < Whole(Right(b))
    /\ Whole(Right(a)) > Whole(Left(b))
    /\ Whole(Bottom(a)) < Whole(Top(b))
    /\ Whole(Top(a)) > Whole(Bottom(b))

\* the GroupItems of a collection, nested ones included
RECURSIVE GroupCount(_)
GroupCount(items) ==
    IF Len(items) = 0 THEN 0
    ELSE (IF items[1].typename = "GroupItem" THEN 1 + GroupCount(items[1].pageItems) ELSE 0)
         + GroupCount(Tail(items))

\* C15: removeOverlappingPathsInGroups removes from the hex group exactly
\* the PathItems and whole CompoundPathItems, at any depth of nested groups,
\* whose box intersects the sponsor group's box as it was at the start;
\* every other hex item and the sponsor are left as they were
C15_RemovesExactlyOverlapping ==
    Returned("removeOverlappingPathsInGroups") =>
        LET hexBefore == call.args[1]
            sponsorBounds == call.args[2].geometricBounds
            stay == SelectSeq(Leaves(hexBefore.pageItems),
                              LAMBDA it : ~Overlaps(it.geometricBounds, sponsorBounds))
        IN  /\ Leaves(ret[1].hexGroup.pageItems) = stay
            /\ Len(ret[1].removed) = Len(Leaves(hexBefore.pageItems)) - Len(stay)
            /\ \A k \in 1..Len(ret[1].removed) :
                  Overlaps(ItemAt(hexBefore.pageItems, ret[1].removed[k]).geometricBounds,
                           sponsorBounds)
            /\ GroupCount(ret[1].hexGroup.pageItems) = GroupCount(hexBefore.pageItems)
            /\ ret[1].sponsorGroup = call.args[2]

\* a nested path goes and a compound path stays
C15_Witness ==
    /\ Returned("removeOverlappingPathsInGroups")
    /\ GroupCount(call.args[1].pageItems) = 2
    /\ Len(ret[1].removed) = 1
    /\ Len(Leaves(ret[1].hexGroup.pageItems)) = 1
    /\ Leaves(ret[1].hexGroup.pageItems)[1].typename = "CompoundPathItem"


\* the run has ended with the success alert
Succeeded == pc = "done" /\ Len(alerts) > 0 /\ LastAlert.kind = "success"

\* C16: at the end of a successful run with sponsor and hex content, no
\* PathItem or CompoundPathItem left in the Hex group has a box that
\* intersects the box of the Sponsor group in the finished document
C16_NoOverlapInFinishedDocument ==
    Succeeded /\ local.sponsorGroup # 0 /\ local.hexGroup # 0 =>
        LET hexLeft == Leaves(Deref(local.hexGroup).pageItems)
            sponsorBounds == Deref(local.sponsorGroup).geometricBounds
        IN  \A k \in 1..Len(hexLeft) :
               LET b == hexLeft[k].geometricBounds
               IN  ~(/\ NLess(Left(b), Right(sponsorBounds))
                     /\ NGreater(Right(b), Left(sponsorBounds))
                     /\ NLess(Bottom(b), Top(sponsorBounds))
                     /\ NGreater(Top(b), Bottom(sponsorBounds)))

\* some cells of the pattern were removed and some are left, in a run
\* that moved the sponsor to the middle of the hex
C16_Witness ==
    /\ Succeeded
    /\ local.sponsorGroup # 0 /\ local.hexGroup # 0
    /\ input.position = "Middle Sponsor"
    /\ Len(Leaves(Deref(local.hexGroup).pageItems)) \in 1..(Len(Leaves(HexPattern(0, 0))) - 1)


\* the items on the source document's active artboard that are not guides
SourceNonGuides == SelectSeq(input.sourceArt, LAMBDA it : ~it.guides)

\* no item of the artwork layer, at any depth, is a guide
NoGuideInArtwork ==
    \A k \in 1..Len(Leaves(ArtworkItems)) : ~Leaves(ArtworkItems)[k].guides

RECURSIVE AllPathsAreGuides(_)
AllPathsAreGuides(items) ==
    \A k \in 1..Len(items) :
        /\ items[k].typename = "PathItem" => items[k].guides
        /\ AllPathsAreGuides(items[k].pageItems)
        /\ AllPathsAreGuides(items[k].pathItems)

GuidesLayerItems == layers[LayerIndex("G")].pageItems

\* C18: after importGuidesFromSVG has pasted a non-empty set of items, the
\* top-left corner of their combined box lies 0.5 cm right of and 0.5 cm
\* below the top-left corner of the artboard, every PathItem among them is a
\* guide, and main() then locks the Guides layer
C18_GuidesAtHalfCmFromArtboardCorner ==
    /\ pc = "groupGuides" /\ Len(input.guidesArt) > 0 =>
          LET box == BoxOf(GuidesLayerItems)
              artboardRect == input.template.artboardRect
          IN  /\ Left(box) = NAdd(Left(artboardRect), NMul(Rat(1, 2), POINTS_PER_CM))
              /\ Top(box) = NSub(Top(artboardRect), NMul(Rat(1, 2), POINTS_PER_CM))
              /\ Len(GuidesLayerItems) = Len(input.guidesArt)
              /\ AllPathsAreGuides(GuidesLayerItems)
    /\ pc = "groupSponsor" /\ local.guidesLayer # "" => layers[LayerIndex("G")].locked


\* the steps of main() after the Masuri Tab is positioned
AfterPositionMasuriTab == pc \in {"removeEmptyLayers", "clearSelection", "showSuccess"} \/ Succeeded

\* C19: from its positioning to the end of a successful run the top-left
\* corner of the Masuri Tab group is 5.7281 cm right of the artboard's left
\* edge and 18.8218 cm ("Bottom Sponsor") or 8.4713 cm ("Middle Sponsor")
\* below its top edge
C19_MasuriTabPosition ==
    AfterPositionMasuriTab /\ local.masuriTabGroup # 0 =>
        LET b == Deref(local.masuriTabGroup).geometricBounds
            artboardRect == input.template.artboardRect
            down == IF input.position = "Bottom Sponsor" THEN Rat(188218, 10000)
                    ELSE Rat(84713, 10000)
        IN  /\ Left(b) = NAdd(Left(artboardRect), NMul(Rat(57281, 10000), POINTS_PER_CM))
            /\ Top(b) = NSub(Top(artboardRect), NMul(down, POINTS_PER_CM))

C19_Witness ==
    /\ Succeeded
    /\ local.masuriTabGroup # 0
    /\ input.position = "Middle Sponsor"
    /\ Left(input.template.artboardRect) # Pt(0)
    /\ Top(Deref(local.masuriTabGroup).geometricBounds)
          = NSub(Top(input.template.artboardRect), NMul(Rat(84713, 10000), POINTS_PER_CM))


\* the Hex group and the Sponsor group of the document
HexGroupNow == Deref(local.hexGroup)
SponsorGroupNow == Deref(local.sponsorGroup)

\* the step of main() that centres hex and sponsor has just been taken
CentredHexAndSponsor ==
    /\ pc = "centerHexAndSponsor" /\ pc' = "positionMasuriTab"
    /\ local.sponsorGroup # 0 /\ local.hexGroup # 0

\* C20: centerTwoGroupsOnArtboard moves the hex group and the sponsor group
\* by one and the same offset, after which the centre of the box around
\* both is the centre of the artboard on both axes; the sponsor keeps its
\* position relative to the hex
C20_CentredTogether ==
    [][CentredHexAndSponsor =>
          LET dx == NSub(Left(HexGroupNow.geometricBounds'), Left(HexGroupNow.geometricBounds))
              dy == NSub(Top(HexGroupNow.geometricBounds'), Top(HexGroupNow.geometricBounds))
              both == BoxOf(<<HexGroupNow', SponsorGroupNow'>>)
              artboardRect == input.template.artboardRect
          IN  /\ HexGroupNow' = TranslateItem(HexGroupNow, dx, dy)
              /\ SponsorGroupNow' = TranslateItem(SponsorGroupNow, dx, dy)
              /\ TwiceCenterX(both) = TwiceCenterX(artboardRect)
              /\ TwiceCenterY(both) = TwiceCenterY(artboardRect)
              /\ NSub(Left(SponsorGroupNow.geometricBounds'), Left(HexGroupNow.geometricBounds'))
                    = NSub(Left(SponsorGroupNow.geometricBounds), Left(HexGroupNow.geometricBounds))
              /\ NSub(Top(SponsorGroupNow.geometricBounds'), Top(HexGroupNow.geometricBounds'))
                    = NSub(Top(SponsorGroupNow.geometricBounds), Top(HexGroupNow.geometricBounds))
    ]_vars

\* hex and sponsor have been centred on an artboard that is off the origin,
\* the sponsor reaching below what is left of the hex
C20_Witness ==
    /\ pc = "positionMasuriTab"
    /\ local.sponsorGroup # 0 /\ local.hexGroup # 0
    /\ failedAt = "none"
    /\ Left(input.template.artboardRect) # Pt(0)
    /\ TwiceCenterX(BoxOf(<<HexGroupNow, SponsorGroupNow>>)) = TwiceCenterX(input.template.artboardRect)
    /\ BoxOf(<<HexGroupNow, SponsorGroupNow>>) # HexGroupNow.geometricBounds


\* the names of the groups that are the children of a group
SubGroupNames(group) ==
    {group.pageItems[k].name :
        k \in {j \in 1..Len(group.pageItems) : group.pageItems[j].typename = "GroupItem"}}

\* sponsor, hex and Masuri Tab content were all found
AllContentPresent ==
    Len(local.sponsorItems) > 0 /\ Len(local.hexItems) > 0 /\ Len(local.masuriTabItems) > 0

\* the master groups: the groups named "Artwork" on a layer named "Artwork"
MasterGroups ==
    {g \in UNION {{layers[i].pageItems[k] : k \in 1..Len(layers[i].pageItems)} :
                     i \in {j \in 1..Len(layers) : layers[j].name = "Artwork"}} :
        g.typename = "GroupItem" /\ g.name = "Artwork"}

\* C21: at the end of a successful run with sponsor, hex and Masuri Tab
\* content, a layer named "Artwork" holds a master group named "Artwork"
\* whose sub-groups are the three groups "Masuri Tab", "Hex" and "Sponsor",
\* there is a locked layer named "Guides", and no layer is empty
C21_FinalLayerStructure ==
    Succeeded /\ AllContentPresent =>
        /\ \E g \in MasterGroups : SubGroupNames(g) = {"Masuri Tab", "Hex", "Sponsor"}
        /\ \E i \in 1..Len(layers) : layers[i].name = "Guides" /\ layers[i].locked
        /\ \A i \in 1..Len(layers) : Len(layers[i].pageItems) > 0


\* the run got past the dialog and the file checks, and no host call failed
RanUndisturbed == input.ok /\ input.exists = AssetFiles /\ failedAt = "none" /\ ~removeThrew

\* C22: a run in which no step fails shows exactly one alert, the success
\* alert, and shows it last, when main() has nothing left to do; no run
\* shows both the success alert and an error alert, and no run shows an
\* alert that is neither the success alert nor a failure alert
C22_SingleSuccessAlert ==
    /\ pc = "done" /\ RanUndisturbed =>
          /\ Len(alerts) = 1
          /\ alerts[1].kind = "success"
          /\ alerts[1].text = <<"Hex", "created", "successfully!">>
    /\ Shown("success") => pc = "done" /\ LastAlert.kind = "success"
    /\ ~(Shown("success") /\ Shown("error"))
    /\ \A i \in 1..Len(alerts) : alerts[i].kind \in {"success", "error", "notFound"}


\* the documents main() opens only to copy their artwork
ImportDocuments == {"MASURI TAB.svg", "GUIDES.svg"}

\* C23: in every run, ended by success, failure or Cancel, no file is
\* written, the source document's artwork stays as it was, and when the run
\* has ended every document opened for import has been closed again, and
\* closed without saving
C23_NothingSavedImportsClosed ==
    /\ app.written = {}
    /\ app.sourceArt = input.sourceArt
    /\ app.closedWithoutSaving \subseteq ImportDocuments
    /\ pc = "done" => app.documents \cap ImportDocuments = {}


\* 28.3464567 as a quotient of whole numbers
DocumentedPointsPerCm == Rat(283464567, 10000000)

\* x and y are the same number
SameNumber(x, y) == IsFinite(x) /\ IsFinite(y) /\ NSign(NSub(x, y)) = 0

\* points is cm centimetres: 0 for 0 cm, else 28.3464567 points for each centimetre
IsCmInPoints(points, cm) ==
    IF NSign(cm) = 0 THEN SameNumber(points, Pt(0))
    ELSE SameNumber(NDiv(points, cm), DocumentedPointsPerCm)

\* C24: scaleToFit, positionLayerGroup, positionGroupAbsolute and
\* importGuidesFromSVG all turn centimetres into points by the factor
\* 28.3464567: 1 cm is 28.3464567 points and 0 cm is 0 points
C24_OneFactorForCentimetres ==
    /\ Returned("positionGroupAbsolute") =>
          LET bounds == call.args[1].geometricBounds
              artboardRect == call.args[4]
              xPoints == NAdd(NSub(ret[1][1], Left(artboardRect)), Left(bounds))
              yPoints == NSub(NSub(Top(artboardRect), Top(bounds)), ret[1][2])
          IN  IsCmInPoints(xPoints, call.args[2]) /\ IsCmInPoints(yPoints, call.args[3])
    /\ Returned("positionLayerGroup") /\ ret[1] # Null =>
          LET group == CHOOSE g \in {call.args[1].pageItems[k] : k \in 1..Len(call.args[1].pageItems)} :
                          g.typename = "GroupItem"
              xPoints == NAdd(ret[1][1], Left(group.geometricBounds))
              yPoints == NNeg(NAdd(ret[1][2], Top(group.geometricBounds)))
          IN  IsCmInPoints(xPoints, call.args[2]) /\ IsCmInPoints(yPoints, call.args[3])
    /\ Returned("scaleToFit") /\ Len(call.args[1]) > 0 =>
          LET box == BoxAround(call.args[1])
              W == Whole(Right(box)) - Whole(Left(box))
              H == Whole(Top(box)) - Whole(Bottom(box))
              widthLimits == Whole(call.args[2]) * H <= Whole(call.args[3]) * W
              targetPt == NDiv(NMul(ret[1][1][1], Pt(IF widthLimits THEN W ELSE H)), Pt(100))
          IN  W > 0 /\ H > 0 =>
                 IsCmInPoints(targetPt, IF widthLimits THEN call.args[2] ELSE call.args[3])
    /\ Returned("importGuidesFromSVG") =>
          /\ IsCmInPoints(Left(BoxOf(ret[1])), Rat(1, 2))
          /\ IsCmInPoints(NNeg(Top(BoxOf(ret[1]))), Rat(1, 2))

\* positionGroupAbsolute has converted 1 cm across and 0 cm down, for a
\* group and an artboard that are not at the origin
C24_Witness ==
    /\ Returned("positionGroupAbsolute")
    /\ call.args[2] = Pt(1) /\ call.args[3] = Pt(0)
    /\ Left(call.args[4]) # Pt(0)
    /\ Left(call.args[1].geometricBounds) # Pt(0)
    /\ NLess(Rat(283464566, 10000000),
             NAdd(NSub(ret[1][1], Left(call.args[4])), Left(call.args[1].geometricBounds)))
    /\ NLess(NAdd(NSub(ret[1][1], Left(call.args[4])), Left(call.args[1].geometricBounds)),
             Rat(283464568, 10000000))
    /\ ret[1][2] = NSub(Top(call.args[4]), Top(call.args[1].geometricBounds))


\* C25: scaleToFit makes no resize call exactly when the selection is null
\* or empty; for every non-empty selection and a target box of positive
\* size, a flat selection included, it resizes every item with one
\* percentage that is finite and positive
C25_ScaleToFitAlwaysFinite ==
    Returned("scaleToFit") =>
        /\ ret[1] = <<>> <=> Len(call.args[1]) = 0
        /\ Len(call.args[1]) > 0 /\ NSign(call.args[2]) > 0 /\ NSign(call.args[3]) > 0 =>
              /\ Len(ret[1]) = Len(call.args[1])
              /\ \A i \in 1..Len(ret[1]) :
                    /\ ret[1][i] = ret[1][1]
                    /\ ret[1][i][1] = ret[1][i][2]
                    /\ IsFinite(ret[1][i][1])
                    /\ NSign(ret[1][i][1]) > 0


\* main() takes the step that calls removeEmptyLayers, and doc.layers can be read
RemovesEmptyLayers == pc = "removeEmptyLayers" /\ pc' # pc /\ ~Fails("removeEmptyLayers")

\* C26: when removeEmptyLayers returns, every layer without page items
\* whose removal does not fail is gone, also when the removal of another
\* empty layer failed in the same call, and every layer with page items is
\* still there, unchanged
C26_FailedRemovalIsSkipped ==
    [][RemovesEmptyLayers =>
          /\ \A i \in 1..Len(layers') :
                Len(layers'[i].pageItems) = 0 => layers'[i].key \in input.removeThrows
          /\ \A i \in 1..Len(layers) :
                Len(layers[i].pageItems) > 0 => \E j \in 1..Len(layers') : layers'[j] = layers[i]
    ]_vars

====
